---- MODULE Spec2Model ----
(***************************************************************************)
(* Port/global configuration engine of the Cisco switch configuration tool *)
(* (src/CiscoConfigTool_v5.py): port store, selection, VLAN registry and   *)
(* the snapshot history behind undo/redo.                                  *)
(*                                                                         *)
(* Text typed into an entry widget is a sequence of one-character strings, *)
(* so that int(), str(), split(), strip() and lower() are computed the way *)
(* Python computes them.  A Python dict is a function whose DOMAIN is the  *)
(* set of keys present.                                                    *)
(***************************************************************************)
EXTENDS Integers, Sequences, FiniteSets, TLC

----------------------------------------------------------------------------
(* Bounds of the model *)

\* largest port count the layout can be set to
MaxPorts == 2
\* longest snapshot list in the sessions that explore the port store
MaxHistory == 1
\* port count and longest snapshot list in the sessions that explore the
\* history
HistoryPorts == 1
HistoryDepth == 2
ConfigureDepth == 3
\* port count of the sessions that explore the selection
SelectionPorts == 9
\* largest port number handed to the interface-range compressor
RangePorts == 11
\* longest generated text typed into the template's allowed VLANs entry
MaxTyped == 4

\* VLAN ID limits used by every range check of the source
MinVlan == 1
MaxVlan == 4094

----------------------------------------------------------------------------
(* Python string primitives *)

DigitChars == {"0", "1", "2", "3", "4", "5", "6", "7", "8", "9"}

DigitVal(c) ==
    CASE c = "0" -> 0 [] c = "1" -> 1 [] c = "2" -> 2 [] c = "3" -> 3
      [] c = "4" -> 4 [] c = "5" -> 5 [] c = "6" -> 6 [] c = "7" -> 7
      [] c = "8" -> 8 [] c = "9" -> 9

DigitChar(d) ==
    CASE d = 0 -> "0" [] d = 1 -> "1" [] d = 2 -> "2" [] d = 3 -> "3"
      [] d = 4 -> "4" [] d = 5 -> "5" [] d = 6 -> "6" [] d = 7 -> "7"
      [] d = 8 -> "8" [] d = 9 -> "9"

\* str.lower() on one character of the model's alphabet
LowerChar(c) ==
    CASE c = "A" -> "a" [] c = "L" -> "l" [] c = "B" -> "b" [] c = "C" -> "c"
      [] OTHER -> c

\* str.upper() on one character of the model's alphabet
UpperChar(c) ==
    CASE c = "a" -> "A" [] c = "l" -> "L" [] c = "b" -> "B" [] c = "c" -> "C"
      [] OTHER -> c

Lower(s) == [i \in 1..Len(s) |-> LowerChar(s[i])]
Upper(s) == [i \in 1..Len(s) |-> UpperChar(s[i])]

RECURSIVE Strip(_)
\* str.strip(): drop leading and trailing blanks
Strip(s) ==
    IF s = << >> THEN s
    ELSE IF Head(s) = " " THEN Strip(Tail(s))
    ELSE IF s[Len(s)] = " " THEN Strip(SubSeq(s, 1, Len(s) - 1))
    ELSE s

\* str.isdigit(): non-empty and made of digits only
IsDigit(s) == s # << >> /\ \A i \in 1..Len(s) : s[i] \in DigitChars

\* "c in s" for a one-character c
Contains(s, c) == \E i \in 1..Len(s) : s[i] = c

RECURSIVE DigitsValue(_)
DigitsValue(s) ==
    IF s = << >> THEN 0
    ELSE 10 * DigitsValue(SubSeq(s, 1, Len(s) - 1)) + DigitVal(s[Len(s)])

\* int(s): surrounding blanks are ignored, one sign is allowed, the rest
\* must be digits; anything else raises ValueError (ok = FALSE)
PyInt(s) ==
    LET t == Strip(s)
        signed == t # << >> /\ Head(t) \in {"-", "+"}
        body == IF signed THEN Tail(t) ELSE t
    IN  IF IsDigit(body)
        THEN [ok |-> TRUE,
              val |-> IF signed /\ Head(t) = "-" THEN 0 - DigitsValue(body)
                      ELSE DigitsValue(body)]
        ELSE [ok |-> FALSE, val |-> 0]

RECURSIVE NatToText(_)
NatToText(n) ==
    IF n < 10 THEN <<DigitChar(n)>>
    ELSE Append(NatToText(n \div 10), DigitChar(n % 10))

\* str(n) for an integer n
IntToText(n) == IF n < 0 THEN <<"-">> \o NatToText(0 - n) ELSE NatToText(n)

RECURSIVE Split(_, _)
\* s.split(sep) for a one-character sep: always at least one part
Split(s, sep) ==
    IF \A i \in 1..Len(s) : s[i] # sep THEN <<s>>
    ELSE LET k == CHOOSE i \in 1..Len(s) :
                     s[i] = sep /\ \A j \in 1..(i - 1) : s[j] # sep
         IN  <<SubSeq(s, 1, k - 1)>> \o Split(SubSeq(s, k + 1, Len(s)), sep)

\* the text "ALL" that stands for every VLAN
TextALL == <<"A", "L", "L">>
TextAllLower == <<"a", "l", "l">>

----------------------------------------------------------------------------
(* VLAN validators *)

InVlanRange(n) == MinVlan <= n /\ n <= MaxVlan

\* one "start-end" token of _validate_vlan_range: "ok", "bad", or "error"
\* when the token does not unpack into exactly two pieces (ValueError)
ValidateRangeToken(part) ==
    LET pieces == Split(part, "-") IN
    IF Len(pieces) # 2 THEN "error"
    ELSE LET start == Strip(pieces[1])
             end == Strip(pieces[2])
         IN  IF start # << >> /\ ~IsDigit(start) THEN "bad"
             ELSE IF end # << >> /\ ~IsDigit(end) THEN "bad"
             ELSE IF start # << >> /\ end # << >>
                     /\ ~(InVlanRange(DigitsValue(start))
                          /\ InVlanRange(DigitsValue(end))
                          /\ DigitsValue(start) <= DigitsValue(end))
                  THEN "bad"
             ELSE "ok"

\* one token without a hyphen
ValidateSingleToken(part) ==
    IF ~IsDigit(part) THEN "bad"
    ELSE IF ~InVlanRange(DigitsValue(part)) THEN "bad"
    ELSE "ok"

RECURSIVE ValidateParts(_, _)
\* the loop over the comma-separated parts: the first "bad" part returns
\* False, the first "error" part leaves through the except clause
ValidateParts(parts, from_update_template) ==
    IF parts = << >> THEN TRUE
    ELSE LET part == Strip(Head(parts))
             verdict == IF part = << >> THEN "ok"
                        ELSE IF Contains(part, "-") THEN ValidateRangeToken(part)
                        ELSE ValidateSingleToken(part)
         IN  CASE verdict = "bad" -> FALSE
               [] verdict = "error" -> ~from_update_template
               [] OTHER -> ValidateParts(Tail(parts), from_update_template)

\* _validate_vlan_range as called from any handler but update_template
ValidateVlanRangeFrom(vlan_range, from_update_template) ==
    IF vlan_range = << >> THEN TRUE
    ELSE IF Upper(vlan_range) = TextALL THEN TRUE
    ELSE ValidateParts(Split(vlan_range, ","), from_update_template)

validate_vlan_range(vlan_range) == ValidateVlanRangeFrom(vlan_range, FALSE)

\* _validate_single_vlan
validate_single_vlan(value) ==
    IF value = << >> THEN TRUE
    ELSE IF Upper(value) = TextALL THEN TRUE
    ELSE IF IsDigit(value) THEN InVlanRange(DigitsValue(value))
    ELSE TRUE

----------------------------------------------------------------------------
(* Python dict primitives *)

EmptyDict == << >>
Has(d, k) == k \in DOMAIN d
DictSet(d, k, v) == [x \in (DOMAIN d) \cup {k} |-> IF x = k THEN v ELSE d[x]]
\* a del that leaves the key in place
DictDelKeeps(d, k) == d

DictDel(d, k) == [x \in (DOMAIN d) \ {k} |-> d[x]]

\* the deep copy of a store is the store itself: values are immutable here
DeepCopy(store) == store

\* seq[i] with Python's zero-based index, a negative index counting from
\* the end; the caller checks InPyRange first (IndexError otherwise)
InPyRange(seq, i) == (0 - Len(seq)) <= i /\ i < Len(seq)
PyIndex(seq, i) == IF i >= 0 THEN seq[i + 1] ELSE seq[Len(seq) + i + 1]

\* seq[:n] for n >= 0
PyPrefix(seq, n) == SubSeq(seq, 1, IF n < Len(seq) THEN n ELSE Len(seq))

----------------------------------------------------------------------------
(* State *)

VARIABLES
    port_configs,       \* self.port_configs: port number -> record (a dict)
    selected_ports,     \* self.selected_ports
    last_clicked_port,  \* self.last_clicked_port, NoPort for None
    config_history,     \* self.config_history: list of store snapshots
    current_step,       \* self.current_step: the history cursor
    configured_vlans,   \* self.configured_vlans: the VLAN registry
    total_ports,        \* self.total_ports_var as of the last layout update
    port_mode_var,      \* self.port_mode_var: the mode shown in the panel
    port_configs_file,  \* the content of the file port_configs.json
    script              \* the steps of a scripted session (scenario specs)

vars == <<port_configs, selected_ports, last_clicked_port, config_history,
          current_step, configured_vlans, total_ports, port_mode_var,
          port_configs_file, script>>

\* the program's state proper
state == <<port_configs, selected_ports, last_clicked_port, config_history,
           current_step, configured_vlans, total_ports, port_mode_var,
           port_configs_file>>

\* port_configs.json before the first save: os.path.exists is False
NoFile == [exists |-> FALSE, data |-> EmptyDict]

\* a save that writes the trunk ports only
save_port_configsTrunkOnly(store) ==
    [exists |-> TRUE,
     data |-> [k \in {IntToText(q) : q \in {r \in DOMAIN store :
                                                  Has(store[r], "mode")
                                                  /\ store[r]["mode"] = "trunk"}} |->
                  store[PyInt(k).val]]]

\* _save_port_configs: json.dump of {str(k): v}, the file opened with 'w'
save_port_configs(store) ==
    [exists |-> TRUE,
     data |-> [k \in {IntToText(q) : q \in DOMAIN store} |-> store[PyInt(k).val]]]

\* _load_port_configs: {int(k): v} of the loaded object; the store is left
\* alone when there is no file
load_port_configs(file, store) ==
    IF ~file.exists THEN store
    ELSE [q \in {PyInt(k).val : k \in DOMAIN file.data} |-> file.data[IntToText(q)]]

NoPort == 0
Ports == 1..MaxPorts

\* CiscoConfigTool.__init__ with no saved files, on a layout of n ports: the
\* state variables, then the first _draw_switch
InitWith(n) ==
    /\ port_configs = EmptyDict
    /\ selected_ports = {}
    /\ last_clicked_port = NoPort
    /\ config_history = << >>
    /\ current_step = -1
    /\ configured_vlans = {}
    /\ total_ports = n
    /\ port_mode_var = "Access"
    /\ port_configs_file = NoFile
    /\ script = << >>

Init == InitWith(MaxPorts)

----------------------------------------------------------------------------
(* The configuration panel's mode *)

\* str.lower() on the values the mode variable takes
ModeLower(m) ==
    CASE m = "Access" -> "access" [] m = "Trunk" -> "trunk" [] OTHER -> m

\* str.capitalize() on the values a mode takes
ModeCapitalize(m) ==
    CASE m = "access" -> "Access" [] m = "trunk" -> "Trunk" [] OTHER -> m

\* the mode left by _reset_port_config_panel
ResetMode(var) ==
    IF ModeLower(var) \in {"access", "trunk"}
    THEN ModeCapitalize(ModeLower(var))
    ELSE ""

\* config.get("mode", "").lower()
RecordMode(config) == IF Has(config, "mode") THEN ModeLower(config["mode"]) ELSE ""

\* the mode left by _update_port_config_panel_from_selection
PanelModeFromSelection(sel, store, var) ==
    LET configured == sel \cap DOMAIN store
        modes == {RecordMode(store[p]) : p \in {q \in configured : store[q] # EmptyDict}}
    IN  IF sel = {} \/ configured = {} \/ modes = {} THEN ResetMode(var)
        ELSE IF Cardinality(modes) = 1
             THEN ModeCapitalize(CHOOSE m \in modes : TRUE)
             ELSE ""

\* the operator picks a mode in the read-only combobox
SelectMode(m) ==
    /\ m \in {"Access", "Trunk"}
    /\ port_mode_var # m
    /\ port_mode_var' = m
    /\ UNCHANGED <<port_configs, selected_ports, last_clicked_port,
                   config_history, current_step, configured_vlans, total_ports,
                   port_configs_file>>

----------------------------------------------------------------------------
(* Selection *)

Min(a, b) == IF a <= b THEN a ELSE b
Max(a, b) == IF a >= b THEN a ELSE b

\* a ctrl-click that only ever adds the port
CtrlSelectionAddsOnly(sel, p) == sel \cup {p}

\* lines 692-698: the selection a ctrl-click on p leaves
CtrlSelection(sel, p) == IF p \in sel THEN sel \ {p} ELSE sel \cup {p}

\* a shift-click that drops what was selected outside the range
ShiftSelectionReplaces(sel, anchor, p) == Min(anchor, p)..Max(anchor, p)

\* lines 705-712: the selection a shift-click on p leaves, anchor not None
ShiftSelection(sel, anchor, p) == sel \cup (Min(anchor, p)..Max(anchor, p))

\* a plain click that keeps what was selected
PlainSelectionAdds(sel, p) == sel \cup {p}

\* line 724: the selection a plain click on p leaves
PlainSelection(sel, p) == {p}

\* a click whose shift branch is taken without an anchor: the port joins the
\* selection and the anchor stays None
on_port_clickShiftWithoutAnchor(p, ctrl_pressed, shift_pressed) ==
    /\ p \in 1..total_ports
    /\ IF ctrl_pressed THEN
          /\ selected_ports' = CtrlSelection(selected_ports, p)
          /\ last_clicked_port' = p
       ELSE IF shift_pressed THEN
          /\ selected_ports' =
                ShiftSelection(selected_ports,
                               IF last_clicked_port = NoPort THEN p
                               ELSE last_clicked_port, p)
          /\ last_clicked_port' = last_clicked_port
       ELSE IF selected_ports = {p} THEN
          /\ UNCHANGED <<selected_ports, last_clicked_port>>
       ELSE
          /\ selected_ports' = PlainSelection(selected_ports, p)
          /\ last_clicked_port' = p
    /\ port_mode_var' =
          IF ~ctrl_pressed /\ ~shift_pressed /\ selected_ports = {p}
          THEN port_mode_var
          ELSE PanelModeFromSelection(selected_ports', port_configs, port_mode_var)
    /\ UNCHANGED <<port_configs, config_history, current_step,
                   configured_vlans, total_ports, port_configs_file>>

\* on_port_click on the rectangle of port p with the given modifier keys
on_port_click(p, ctrl_pressed, shift_pressed) ==
    /\ p \in 1..total_ports
    /\ IF ctrl_pressed THEN
          /\ selected_ports' = CtrlSelection(selected_ports, p)
          /\ last_clicked_port' = p
          /\ port_mode_var' =
                PanelModeFromSelection(selected_ports', port_configs, port_mode_var)
       ELSE IF shift_pressed /\ last_clicked_port # NoPort THEN
          /\ selected_ports' = ShiftSelection(selected_ports, last_clicked_port, p)
          /\ last_clicked_port' = last_clicked_port
          /\ port_mode_var' =
                PanelModeFromSelection(selected_ports', port_configs, port_mode_var)
       ELSE IF selected_ports = {p} THEN
          /\ UNCHANGED <<selected_ports, last_clicked_port, port_mode_var>>
       ELSE
          /\ selected_ports' = PlainSelection(selected_ports, p)
          /\ last_clicked_port' = p
          /\ port_mode_var' =
                PanelModeFromSelection(selected_ports', port_configs, port_mode_var)
    /\ UNCHANGED <<port_configs, config_history, current_step,
                   configured_vlans, total_ports, port_configs_file>>

\* a layout update that leaves the selection alone
PruneAboveKeeps(ports, total) == ports

\* lines 418-419: the selected ports that still exist
PruneAbove(ports, total) == {q \in ports : q <= total}

\* _draw_switch after the port count was set to n ("Update Layout")
DrawSwitch(n) ==
    LET total == IF n <= 0 THEN 1 ELSE n IN
    /\ total_ports' = total
    /\ last_clicked_port' = NoPort
    /\ selected_ports' = PruneAbove(selected_ports, total)
    /\ port_configs' = [q \in {k \in DOMAIN port_configs : k <= total} |-> port_configs[q]]
    /\ UNCHANGED <<config_history, current_step, configured_vlans, port_mode_var,
                   port_configs_file>>

----------------------------------------------------------------------------
(* History *)

\* a push that forgets to cut the redoable snapshots off
RecordHistoryNoTruncate(history, step, store) ==
    [history |-> Append(history, DeepCopy(store)), step |-> step + 1]

\* a push that records the store twice
RecordHistoryTwice(history, step, store) ==
    [history |-> Append(Append(PyPrefix(history, step + 1), DeepCopy(store)),
                        DeepCopy(store)),
     step |-> step + 2]

\* the four lines every mutating handler runs before it mutates:
\* prev_state = deepcopy(port_configs); history = history[:step+1];
\* history.append(prev_state); step += 1
RecordHistory(history, step, store) ==
    [history |-> Append(PyPrefix(history, step + 1), DeepCopy(store)),
     step |-> step + 1]

\* an undo whose guard lets the cursor leave -1
undo_configUnguarded ==
    /\ IF current_step >= -1 THEN
          /\ current_step' = current_step - 1
          /\ IF InPyRange(config_history, current_step')
             THEN /\ port_configs' = DeepCopy(PyIndex(config_history, current_step'))
             ELSE /\ port_configs' = port_configs
       ELSE
          /\ UNCHANGED <<current_step, port_configs>>
    /\ UNCHANGED <<selected_ports, last_clicked_port, config_history,
                   configured_vlans, total_ports, port_mode_var,
                   port_configs_file>>

\* an undo that also writes the port file
undo_configSaves ==
    /\ IF current_step >= 0 THEN
          /\ current_step' = current_step - 1
          /\ IF InPyRange(config_history, current_step')
             THEN /\ port_configs' = DeepCopy(PyIndex(config_history, current_step'))
             ELSE /\ port_configs' = port_configs
          /\ port_configs_file' = save_port_configs(port_configs')
       ELSE
          /\ UNCHANGED <<current_step, port_configs, port_configs_file>>
    /\ UNCHANGED <<selected_ports, last_clicked_port, config_history,
                   configured_vlans, total_ports, port_mode_var>>

\* undo_config
undo_config ==
    /\ IF current_step >= 0 THEN
          /\ current_step' = current_step - 1
          /\ IF InPyRange(config_history, current_step')
             THEN /\ port_configs' = DeepCopy(PyIndex(config_history, current_step'))
             ELSE /\ port_configs' = port_configs
       ELSE
          /\ UNCHANGED <<current_step, port_configs>>
    /\ UNCHANGED <<selected_ports, last_clicked_port, config_history,
                   configured_vlans, total_ports, port_mode_var,
                   port_configs_file>>

\* a redo whose guard lets the cursor pass the last snapshot
redo_configUnguarded ==
    /\ IF current_step <= Len(config_history) - 1 THEN
          /\ current_step' = current_step + 1
          /\ IF InPyRange(config_history, current_step')
             THEN /\ port_configs' = DeepCopy(PyIndex(config_history, current_step'))
             ELSE /\ port_configs' = port_configs
       ELSE
          /\ UNCHANGED <<current_step, port_configs>>
    /\ UNCHANGED <<selected_ports, last_clicked_port, config_history,
                   configured_vlans, total_ports, port_mode_var,
                   port_configs_file>>

\* redo_config
redo_config ==
    /\ IF current_step < Len(config_history) - 1 THEN
          /\ current_step' = current_step + 1
          /\ port_configs' = DeepCopy(PyIndex(config_history, current_step'))
       ELSE
          /\ UNCHANGED <<current_step, port_configs>>
    /\ UNCHANGED <<selected_ports, last_clicked_port, config_history,
                   configured_vlans, total_ports, port_mode_var,
                   port_configs_file>>

----------------------------------------------------------------------------
(* Apply Configuration: _update_vlan_from_port_config *)

RECURSIVE TrunkVlanTexts(_)
\* lines 1055-1060: the VLAN texts named by the allowed-VLAN parts; ok is
\* FALSE when a hyphenated part does not unpack into two integers, which
\* raises ValueError out of the handler
TrunkVlanTexts(parts) ==
    IF parts = << >> THEN [ok |-> TRUE, texts |-> {}]
    ELSE LET vlan == Head(parts)
             rest == TrunkVlanTexts(Tail(parts))
             pieces == Split(vlan, "-")
         IN  IF Contains(vlan, "-")
             THEN IF Len(pieces) # 2 THEN [ok |-> FALSE, texts |-> {}]
                  ELSE LET start == PyInt(Strip(pieces[1]))
                           end == PyInt(Strip(pieces[2]))
                       IN  IF ~start.ok \/ ~end.ok \/ ~rest.ok
                           THEN [ok |-> FALSE, texts |-> {}]
                           ELSE [ok |-> TRUE,
                                 texts |-> rest.texts \cup
                                     {IntToText(v) : v \in start.val..end.val}]
             ELSE IF ~rest.ok THEN rest
                  ELSE [ok |-> TRUE, texts |-> rest.texts \cup {Strip(vlan)}]

\* lines 1043-1060: new_vlans
NewVlanTexts(mode, native_vlan, data_vlan, voice_vlan, allowed_vlans) ==
    LET base == IF native_vlan # << >> THEN {native_vlan} ELSE {} IN
    IF mode = "access"
    THEN [ok |-> TRUE,
          texts |-> base \cup (IF data_vlan # << >> THEN {data_vlan} ELSE {})
                         \cup (IF voice_vlan # << >> THEN {voice_vlan} ELSE {})]
    ELSE IF mode = "trunk" /\ Lower(allowed_vlans) # TextAllLower
    THEN LET t == TrunkVlanTexts(Split(allowed_vlans, ","))
         IN  [ok |-> t.ok, texts |-> base \cup t.texts]
    ELSE [ok |-> TRUE, texts |-> base]

\* a registry that keeps only the VLANs of the last apply
RegisterVlansReplaces(vlans, texts) ==
    {PyInt(t).val : t \in {x \in texts : PyInt(x).ok}}

\* lines 1063-1072: every text that int() accepts is registered
RegisterVlans(vlans, texts) ==
    vlans \cup {PyInt(t).val : t \in {x \in texts : PyInt(x).ok}}

\* a VLAN entry that int() accepts and that lies in 1..4094
ValidVlanText(t) == PyInt(t).ok /\ InVlanRange(PyInt(t).val)

\* lines 1077-1091: the checks made before the loop, for trunk mode only
TrunkInputValid(mode, native_vlan, allowed_vlans) ==
    mode = "trunk" =>
        /\ native_vlan # << >> => ValidVlanText(native_vlan)
        /\ Lower(allowed_vlans) = TextAllLower \/ validate_vlan_range(allowed_vlans)

\* lines 1094-1148: the body of the loop for one port; ok is FALSE when the
\* body leaves the handler through one of its "return" statements
ConfigurePort(store, port_num, mode, inp) ==
    LET c0 == IF Has(store, port_num) THEN store[port_num] ELSE EmptyDict
        c1 == DictSet(DictSet(DictSet(DictSet(c0,
                  "mode", mode), "description", inp.description),
                  "portfast", inp.portfast), "qos_trust", inp.qos_trust)
        a1 == DictDel(DictDel(c1, "native_vlan"), "allowed_vlans")
        data_ok == inp.data_vlan = << >> \/ ValidVlanText(inp.data_vlan)
        a2 == IF inp.data_vlan # << >> /\ data_ok
              THEN DictSet(a1, "data_vlan", inp.data_vlan) ELSE a1
        voice_ok == inp.voice_vlan = << >> \/ ValidVlanText(inp.voice_vlan)
        a3 == IF inp.voice_vlan # << >>
              THEN IF voice_ok THEN DictSet(a2, "voice_vlan", inp.voice_vlan) ELSE a2
              ELSE DictDel(a2, "voice_vlan")
        t1 == DictDel(DictDel(c1, "data_vlan"), "voice_vlan")
        t2 == IF inp.native_vlan # << >>
              THEN DictSet(t1, "native_vlan", inp.native_vlan)
              ELSE DictDel(t1, "native_vlan")
        t3 == DictSet(t2, "allowed_vlans", inp.allowed_vlans)
    IN  CASE mode = "access" ->
               IF ~data_ok THEN [store |-> DictSet(store, port_num, a1), ok |-> FALSE]
               ELSE IF ~voice_ok THEN [store |-> DictSet(store, port_num, a2), ok |-> FALSE]
               ELSE [store |-> DictSet(store, port_num, a3), ok |-> TRUE]
          [] mode = "trunk" -> [store |-> DictSet(store, port_num, t3), ok |-> TRUE]
          [] OTHER -> [store |-> DictSet(store, port_num, c1), ok |-> TRUE]

\* a loop that runs over every port of the layout
ConfigureEveryPort(store, ports, mode, inp) ==
    [q \in (DOMAIN store) \cup Ports |-> ConfigurePort(store, q, mode, inp).store[q]]

\* the loop run to its end over every port of ports_to_configure
ConfigureAll(store, ports, mode, inp) ==
    [q \in (DOMAIN store) \cup ports |->
        IF q \in ports THEN ConfigurePort(store, q, mode, inp).store[q] ELSE store[q]]

\* lines 1033-1041: what the handler reads from the panel; e holds the text
\* of the entries and the state of the check boxes
ReadPanel(mode_var, e) ==
    LET mode == ModeLower(mode_var)
        allowed_vlans == Strip(e.allowed_vlans)
    IN  [mode |-> mode,
         description |-> Strip(e.description),
         portfast |-> e.portfast, qos_trust |-> e.qos_trust,
         data_vlan |-> Strip(e.data_vlan), voice_vlan |-> Strip(e.voice_vlan),
         native_vlan |-> Strip(e.native_vlan),
         allowed_vlans |-> IF allowed_vlans = << >> /\ mode = "trunk"
                           THEN TextALL ELSE allowed_vlans]

PanelNewVlans(inp) ==
    NewVlanTexts(inp.mode, inp.native_vlan, inp.data_vlan, inp.voice_vlan,
                 inp.allowed_vlans)

\* how the handler ends: "no_selection" (line 1017), "error" (ValueError
\* raised at line 1057 or 1058), "invalid" (one of the returns after a
\* warning: lines 1085, 1091, 1122, 1133) or "ok" (it runs to its end)
ApplyOutcome(store, sel, mode_var, e) ==
    LET inp == ReadPanel(mode_var, e) IN
    IF sel = {} THEN "no_selection"
    ELSE IF ~PanelNewVlans(inp).ok THEN "error"
    ELSE IF ~TrunkInputValid(inp.mode, inp.native_vlan, inp.allowed_vlans) THEN "invalid"
    ELSE IF \E q \in sel : ~ConfigurePort(store, q, inp.mode, inp).ok THEN "invalid"
    ELSE "ok"

\* the store the handler leaves when the loop starts with port first
ApplyStore(store, sel, mode_var, e, first) ==
    LET inp == ReadPanel(mode_var, e)
        outcome == ApplyOutcome(store, sel, mode_var, e)
    IN  IF outcome = "ok" THEN ConfigureAll(store, sel, inp.mode, inp)
        ELSE IF outcome = "invalid"
                /\ TrunkInputValid(inp.mode, inp.native_vlan, inp.allowed_vlans)
             THEN ConfigurePort(store, first, inp.mode, inp).store
        ELSE store

\* _update_vlan_from_port_config
update_vlan_from_port_config(e) ==
    LET outcome == ApplyOutcome(port_configs, selected_ports, port_mode_var, e)
        rec == RecordHistory(config_history, current_step, port_configs)
    IN
    IF outcome = "no_selection" THEN UNCHANGED state
    ELSE
        /\ config_history' = rec.history
        /\ current_step' = rec.step
        /\ configured_vlans' =
              IF outcome = "error" THEN configured_vlans
              ELSE RegisterVlans(configured_vlans,
                                 PanelNewVlans(ReadPanel(port_mode_var, e)).texts)
        \* the iteration order of a set is unspecified: a loop that returns
        \* inside its body has run the body of whichever port came first
        /\ \E first \in selected_ports :
              port_configs' = ApplyStore(port_configs, selected_ports,
                                         port_mode_var, e, first)
        \* line 1156 is reached only when no check returned before it
        /\ port_configs_file' =
              IF outcome = "ok" THEN save_port_configs(port_configs')
              ELSE port_configs_file
        /\ UNCHANGED <<selected_ports, last_clicked_port, total_ports, port_mode_var>>

----------------------------------------------------------------------------
(* Direct field updates *)

\* a loop that skips the test on the mode
ConfiguredPortsOf(store, ports) == {q \in ports : Has(store, q)}

\* lines 1204-1209 and 1263-1268: the ports of the selection that hold a
\* record whose mode is trunk
TrunkPortsOf(store, ports) ==
    {q \in ports : Has(store, q) /\ RecordMode(store[q]) = "trunk"}

\* the loop of a direct update: field := value on every qualifying port
DirectUpdate(store, ports, field, value) ==
    [q \in DOMAIN store |->
        IF q \in TrunkPortsOf(store, ports) THEN DictSet(store[q], field, value)
        ELSE store[q]]

\* a handler that does not look at the selection first
NativeOutcomeUnguarded(sel, text) ==
    IF Strip(text) # << >> /\ ~ValidVlanText(Strip(text)) THEN "invalid" ELSE "ok"

\* how _direct_update_native_vlan ends: lines 1175, 1194 or its end
NativeOutcome(sel, text) ==
    IF sel = {} THEN "no_selection"
    ELSE IF Strip(text) # << >> /\ ~ValidVlanText(Strip(text)) THEN "invalid"
    ELSE "ok"

\* _direct_update_native_vlan, reading the native VLAN entry
direct_update_native_vlan(text) ==
    LET entered == Strip(text)
        native_vlan == IF entered # << >> THEN entered ELSE <<"1">>
        rec == RecordHistory(config_history, current_step, port_configs)
    IN
    IF NativeOutcome(selected_ports, text) # "ok" THEN UNCHANGED state
    ELSE
        /\ config_history' = rec.history
        /\ current_step' = rec.step
        /\ port_configs' = DirectUpdate(port_configs, selected_ports, "native_vlan", native_vlan)
        /\ port_configs_file' = save_port_configs(port_configs')
        /\ UNCHANGED <<selected_ports, last_clicked_port, configured_vlans,
                       total_ports, port_mode_var>>

\* lines 1245-1248: the value the handler is about to store
AllowedEntered(text) == IF Strip(text) = << >> THEN TextALL ELSE Strip(text)

\* how _direct_update_allowed_vlans ends: lines 1235, 1255 or its end
AllowedOutcome(sel, text) ==
    IF sel = {} THEN "no_selection"
    ELSE IF Lower(AllowedEntered(text)) # TextAllLower
            /\ ~\E i \in 1..Len(AllowedEntered(text)) : AllowedEntered(text)[i] \in DigitChars
    THEN "invalid"
    ELSE "ok"

\* _direct_update_allowed_vlans, reading the allowed VLANs entry
direct_update_allowed_vlans(text) ==
    LET allowed_vlans == AllowedEntered(text)
        rec == RecordHistory(config_history, current_step, port_configs)
    IN
    IF AllowedOutcome(selected_ports, text) # "ok" THEN UNCHANGED state
    ELSE
        /\ config_history' = rec.history
        /\ current_step' = rec.step
        /\ port_configs' = DirectUpdate(port_configs, selected_ports, "allowed_vlans", allowed_vlans)
        /\ port_configs_file' = save_port_configs(port_configs')
        /\ UNCHANGED <<selected_ports, last_clicked_port, configured_vlans,
                       total_ports, port_mode_var>>

----------------------------------------------------------------------------
(* Templates *)

\* self.port_templates as built by __init__
port_templates ==
    [name \in {"Access Port", "Phone Port", "AP Port", "Trunk Port"} |->
        CASE name = "Access Port" ->
               [mode |-> "access",
                description |-> <<"S", "t", "a", "n", "d", "a", "r", "d", " ", "A", "c", "c", "e", "s", "s", " ", "P", "o", "r", "t">>,
                access_vlan |-> <<"1", "0">>,
                portfast |-> TRUE, qos_trust |-> FALSE]
          [] name = "Phone Port" ->
               [mode |-> "access",
                description |-> <<"V", "o", "i", "c", "e", " ", "+", " ", "D", "a", "t", "a", " ", "P", "o", "r", "t">>,
                access_vlan |-> <<"1", "0">>, voice_vlan |-> <<"1", "0", "0">>,
                portfast |-> TRUE, qos_trust |-> TRUE]
          [] name = "AP Port" ->
               [mode |-> "trunk",
                description |-> <<"A", "c", "c", "e", "s", "s", " ", "P", "o", "i", "n", "t", " ", "P", "o", "r", "t">>,
                native_vlan |-> <<"1", "0">>,
                trunk_vlans |-> <<"1", "0", ",", "2", "0", ",", "3", "0", ",", "1", "0", "0">>,
                portfast |-> TRUE, qos_trust |-> TRUE]
          [] name = "Trunk Port" ->
               [mode |-> "trunk",
                description |-> <<"T", "r", "u", "n", "k", " ", "t", "o", " ", "S", "w", "i", "t", "c", "h">>,
                native_vlan |-> <<"1", "0">>, trunk_vlans |-> <<"A", "L", "L">>,
                portfast |-> FALSE, qos_trust |-> TRUE]]

RECURSIVE TemplateTrunkPartsValid(_)
\* lines 2199-2217: the hand-written check of a template's trunk VLAN list
TemplateTrunkPartsValid(parts) ==
    IF parts = << >> THEN TRUE
    ELSE LET part == Strip(Head(parts))
             pieces == Split(part, "-")
         IN  IF part = << >> THEN TemplateTrunkPartsValid(Tail(parts))
             ELSE IF Contains(part, "-")
             THEN /\ Len(pieces) = 2
                  /\ PyInt(Strip(pieces[1])).ok
                  /\ PyInt(Strip(pieces[2])).ok
                  /\ InVlanRange(PyInt(Strip(pieces[1])).val)
                  /\ InVlanRange(PyInt(Strip(pieces[2])).val)
                  /\ PyInt(Strip(pieces[1])).val <= PyInt(Strip(pieces[2])).val
                  /\ TemplateTrunkPartsValid(Tail(parts))
             ELSE /\ ValidVlanText(part)
                  /\ TemplateTrunkPartsValid(Tail(parts))

\* lines 2186-2220: the validation of the template's VLAN fields
TemplateValid(template) ==
    IF template["mode"] = "access"
    THEN /\ validate_single_vlan(template["access_vlan"])
         /\ Has(template, "voice_vlan") => validate_single_vlan(template["voice_vlan"])
    ELSE IF template["mode"] = "trunk"
    THEN /\ validate_single_vlan(template["native_vlan"])
         /\ \/ Upper(template["trunk_vlans"]) = TextALL
            \/ TemplateTrunkPartsValid(Split(template["trunk_vlans"], ","))
    ELSE TRUE

\* _check_vlan_exists: the registry holds integers only
check_vlan_exists(vlans, vlan_id) ==
    PyInt(vlan_id).ok /\ PyInt(vlan_id).val \in vlans

\* _create_vlan on a VLAN text that int() accepts
create_vlan(vlans, vlan_id) == vlans \cup {PyInt(vlan_id).val}

\* a record that carries an access field under a trunk template
TemplateConfigWithDataVlan(template) ==
    [k \in {"mode", "description", "portfast", "qos_trust", "data_vlan"} |->
        IF k = "data_vlan"
        THEN (IF template["mode"] = "access" THEN template["access_vlan"]
              ELSE template["native_vlan"])
        ELSE template[k]]

\* lines 2266-2279: the record a template writes onto each port
TemplateConfig(template) ==
    LET base == DictSet(DictSet(DictSet(DictSet(EmptyDict,
                    "mode", template["mode"]), "description", template["description"]),
                    "portfast", template["portfast"]), "qos_trust", template["qos_trust"])
    IN  IF template["mode"] = "access"
        THEN LET d == DictSet(base, "data_vlan", template["access_vlan"])
             IN  IF Has(template, "voice_vlan")
                 THEN DictSet(d, "voice_vlan", template["voice_vlan"]) ELSE d
        ELSE DictSet(DictSet(base,
                 "native_vlan", template["native_vlan"]),
                 "allowed_vlans", template["trunk_vlans"])

\* lines 2248-2262: the operator is asked about each missing VLAN of an
\* access template and answers create_data / create_voice
TemplateVlans(vlans, template, create_data, create_voice) ==
    IF template["mode"] # "access" THEN vlans
    ELSE LET v1 == IF ~check_vlan_exists(vlans, template["access_vlan"]) /\ create_data
                   THEN create_vlan(vlans, template["access_vlan"]) ELSE vlans
         IN  IF Has(template, "voice_vlan")
                /\ ~check_vlan_exists(v1, template["voice_vlan"]) /\ create_voice
             THEN create_vlan(v1, template["voice_vlan"]) ELSE v1

\* how _apply_template ends: lines 2167, 2220 or its end
TemplateOutcome(sel, template_name) ==
    IF sel = {} THEN "no_selection"
    ELSE IF ~TemplateValid(port_templates[template_name]) THEN "invalid"
    ELSE "ok"

\* _apply_template
apply_template(template_name, create_data, create_voice) ==
    LET template == port_templates[template_name]
        ports_to_configure == selected_ports
        rec == RecordHistory(config_history, current_step, port_configs)
    IN
    /\ template_name \in DOMAIN port_templates
    /\ IF selected_ports = {} THEN
          /\ UNCHANGED state
       ELSE
          /\ config_history' = rec.history
          /\ current_step' = rec.step
          /\ UNCHANGED <<selected_ports, last_clicked_port, total_ports>>
          /\ IF ~TemplateValid(template) THEN
                /\ UNCHANGED <<port_configs, configured_vlans, port_mode_var,
                               port_configs_file>>
             ELSE
                /\ port_mode_var' = template["mode"]
                /\ configured_vlans' =
                      TemplateVlans(configured_vlans, template, create_data, create_voice)
                /\ port_configs' =
                      [q \in (DOMAIN port_configs) \cup ports_to_configure |->
                          IF q \in ports_to_configure THEN TemplateConfig(template)
                          ELSE port_configs[q]]
                /\ port_configs_file' = save_port_configs(port_configs')

----------------------------------------------------------------------------
(* Clear All *)

\* clear_all: confirmed is the operator's answer to the question
\* a clear-all that also empties the history
clear_allResetsHistory(confirmed) ==
    IF confirmed THEN
        /\ selected_ports' = {}
        /\ port_configs' = EmptyDict
        /\ last_clicked_port' = NoPort
        /\ port_mode_var' = ResetMode(port_mode_var)
        /\ configured_vlans' = {}
        /\ port_configs_file' = save_port_configs(port_configs')
        /\ config_history' = << >>
        /\ current_step' = -1
        /\ UNCHANGED total_ports
    ELSE
        /\ UNCHANGED state

clear_all(confirmed) ==
    IF confirmed THEN
        /\ selected_ports' = {}
        /\ port_configs' = EmptyDict
        /\ last_clicked_port' = NoPort
        /\ port_mode_var' = ResetMode(port_mode_var)
        /\ configured_vlans' = {}
        /\ port_configs_file' = save_port_configs(port_configs')
        /\ UNCHANGED <<config_history, current_step, total_ports>>
    ELSE
        /\ UNCHANGED state

----------------------------------------------------------------------------
(* What the operator may have typed into the panel before pressing a button *)

Entries(description, portfast, qos_trust, data_vlan, voice_vlan, native_vlan, allowed_vlans) ==
    [description |-> description, portfast |-> portfast, qos_trust |-> qos_trust,
     data_vlan |-> data_vlan, voice_vlan |-> voice_vlan,
     native_vlan |-> native_vlan, allowed_vlans |-> allowed_vlans]

EntryInputs ==
    { Entries(<< >>, TRUE, FALSE, <<"1", "0">>, << >>, << >>, << >>),
      Entries(<<"u", "p">>, FALSE, TRUE, <<"2", "0">>, <<"1", "0">>, <<"2", "0">>,
              <<"1", "0", ",", "2", "0">>),
      Entries(<< >>, TRUE, FALSE, <<"1", "0">>, <<"4", "0", "9", "5">>,
              <<"4", "0", "9", "5">>, <<"a", "b", "c">>),
      Entries(<< >>, TRUE, FALSE, <<"4", "0", "9", "5">>, << >>, << >>,
              <<"1", "0", "-">>) }

\* the templates the operator picks from
TemplateInputs == {"Access Port", "AP Port"}

\* the port counts the operator sets the layout to
LayoutInputs == 0..MaxPorts

----------------------------------------------------------------------------
(* The session: any handler, at any time *)

\* a handler runs to its end; the model lets the snapshot list grow to
\* max_history entries
Run(handler, max_history) ==
    /\ handler
    /\ Len(config_history') <= max_history
    /\ UNCHANGED script

Session(entry_inputs, template_inputs, layout_inputs, max_history) ==
    \/ \E p \in Ports, ctrl_pressed \in BOOLEAN, shift_pressed \in BOOLEAN :
          Run(on_port_click(p, ctrl_pressed, shift_pressed), max_history)
    \/ \E m \in {"Access", "Trunk"} : Run(SelectMode(m), max_history)
    \/ \E n \in layout_inputs : Run(DrawSwitch(n), max_history)
    \/ \E e \in entry_inputs : Run(update_vlan_from_port_config(e), max_history)
    \/ \E e \in entry_inputs : Run(direct_update_native_vlan(e.native_vlan), max_history)
    \/ \E e \in entry_inputs : Run(direct_update_allowed_vlans(e.allowed_vlans), max_history)
    \/ \E name \in template_inputs, create_data \in BOOLEAN, create_voice \in BOOLEAN :
          Run(apply_template(name, create_data, create_voice), max_history)
    \/ Run(undo_config, max_history)
    \/ Run(redo_config, max_history)
    \/ \E confirmed \in BOOLEAN : Run(clear_all(confirmed), max_history)

Next == Session(EntryInputs, TemplateInputs, LayoutInputs, MaxHistory)

Spec == Init /\ [][Next]_vars

----------------------------------------------------------------------------
(* Sessions that explore the history: a one-port layout, a deeper history *)

InitHistory == InitWith(HistoryPorts)

HistoryEntryInputs ==
    { Entries(<< >>, TRUE, FALSE, <<"1", "0">>, << >>, << >>, << >>),
      Entries(<<"u", "p">>, FALSE, TRUE, <<"4", "0", "9", "5">>, << >>,
              <<"4", "0", "9", "5">>, <<"a", "b", "c">>) }

HistoryTemplateInputs == {"AP Port"}

NextHistory ==
    Session(HistoryEntryInputs, HistoryTemplateInputs, 0..HistoryPorts, HistoryDepth)

SpecHistory == InitHistory /\ [][NextHistory]_vars

----------------------------------------------------------------------------
(* Sessions that configure the ports in several steps: the full layout, the
   handlers that write records *)

NextConfigure ==
    \/ \E p \in Ports, ctrl_pressed \in BOOLEAN, shift_pressed \in BOOLEAN :
          Run(on_port_click(p, ctrl_pressed, shift_pressed), ConfigureDepth)
    \/ \E m \in {"Access", "Trunk"} : Run(SelectMode(m), ConfigureDepth)
    \/ \E e \in HistoryEntryInputs :
          Run(update_vlan_from_port_config(e), ConfigureDepth)
    \/ \E e \in HistoryEntryInputs :
          Run(direct_update_native_vlan(e.native_vlan), ConfigureDepth)
    \/ \E e \in HistoryEntryInputs :
          Run(direct_update_allowed_vlans(e.allowed_vlans), ConfigureDepth)
    \/ \E name \in HistoryTemplateInputs, create_data \in BOOLEAN, create_voice \in BOOLEAN :
          Run(apply_template(name, create_data, create_voice), ConfigureDepth)

SpecConfigure == Init /\ [][NextConfigure]_vars

----------------------------------------------------------------------------
(* The handlers on the path where they run to their end *)

ApplyOk(e) ==
    /\ ApplyOutcome(port_configs, selected_ports, port_mode_var, e) = "ok"
    /\ update_vlan_from_port_config(e)

NativeOk(text) ==
    /\ NativeOutcome(selected_ports, text) = "ok"
    /\ direct_update_native_vlan(text)

AllowedOk(text) ==
    /\ AllowedOutcome(selected_ports, text) = "ok"
    /\ direct_update_allowed_vlans(text)

TemplateOk(name, create_data, create_voice) ==
    /\ TemplateOutcome(selected_ports, name) = "ok"
    /\ apply_template(name, create_data, create_voice)

\* a successful apply, direct field update or template apply
Mutation(entry_inputs, template_inputs) ==
    \/ \E e \in entry_inputs : ApplyOk(e)
    \/ \E e \in entry_inputs : NativeOk(e.native_vlan)
    \/ \E e \in entry_inputs : AllowedOk(e.allowed_vlans)
    \/ \E name \in template_inputs, create_data \in BOOLEAN, create_voice \in BOOLEAN :
          TemplateOk(name, create_data, create_voice)

----------------------------------------------------------------------------
(* Traced sessions: script keeps, for each traced call, the operation and
   the store, the snapshot list and the cursor as they were before it *)

Trace(op, config) ==
    script' = Append(script, [op |-> op, config |-> config,
                              store |-> port_configs,
                              history |-> config_history,
                              step |-> current_step])

OnlyUndos == \A i \in 1..Len(script) : script[i].op = "undo"

\* apply A, apply B, undo, undo, redo, redo from the initial session; the
\* operator clicks ports and picks the mode before each apply
ApplyAThenB ==
    \E e \in EntryInputs :
        /\ Len(script) <= 1
        /\ Len(script) = 1 => ReadPanel(port_mode_var, e) # script[1].config
        /\ ApplyOk(e)
        /\ Trace("apply", ReadPanel(port_mode_var, e))

NextUndoRedo ==
    \/ \E p \in Ports, ctrl_pressed \in BOOLEAN, shift_pressed \in BOOLEAN :
          /\ Len(script) <= 1
          /\ on_port_click(p, ctrl_pressed, shift_pressed)
          /\ UNCHANGED script
    \/ \E m \in {"Access", "Trunk"} :
          /\ Len(script) <= 1
          /\ SelectMode(m)
          /\ UNCHANGED script
    \/ ApplyAThenB
    \/ /\ Len(script) \in {2, 3}
       /\ undo_config
       /\ Trace("undo", << >>)
    \/ /\ Len(script) \in {4, 5}
       /\ redo_config
       /\ Trace("redo", << >>)

SpecUndoRedo == Init /\ [][NextUndoRedo]_vars

\* any session on the one-port layout, then one of: a mutation and an undo;
\* undos, a mutation and a redo
TraceMutation ==
    /\ Len(script) <= 2
    /\ OnlyUndos
    /\ Mutation(HistoryEntryInputs, HistoryTemplateInputs)
    /\ Len(config_history') <= HistoryDepth
    /\ Trace("mutate", << >>)

TraceUndo ==
    /\ \/ Len(script) <= 1 /\ OnlyUndos
       \/ Len(script) = 1 /\ script[1].op = "mutate"
    /\ undo_config
    /\ Trace("undo", << >>)

TraceRedo ==
    /\ Len(script) >= 2
    /\ script[1].op = "undo"
    /\ script[Len(script)].op = "mutate"
    /\ redo_config
    /\ Trace("redo", << >>)

TracedSession ==
    \/ \E ctrl_pressed \in BOOLEAN, shift_pressed \in BOOLEAN :
          Run(on_port_click(HistoryPorts, ctrl_pressed, shift_pressed), HistoryDepth)
    \/ \E m \in {"Access", "Trunk"} : Run(SelectMode(m), HistoryDepth)
    \/ \E e \in HistoryEntryInputs : Run(update_vlan_from_port_config(e), HistoryDepth)
    \/ \E e \in HistoryEntryInputs : Run(direct_update_native_vlan(e.native_vlan), HistoryDepth)
    \/ \E e \in HistoryEntryInputs : Run(direct_update_allowed_vlans(e.allowed_vlans), HistoryDepth)
    \/ \E name \in HistoryTemplateInputs, create_data \in BOOLEAN, create_voice \in BOOLEAN :
          Run(apply_template(name, create_data, create_voice), HistoryDepth)
    \/ Run(undo_config, HistoryDepth)
    \/ Run(redo_config, HistoryDepth)

NextTraced ==
    \/ script = << >> /\ TracedSession
    \/ TraceMutation
    \/ TraceUndo
    \/ TraceRedo

SpecTraced == InitHistory /\ [][NextTraced]_vars

----------------------------------------------------------------------------
(* Undo and redo after apply A, apply B (SpecUndoRedo) *)

\* C1: after a successful apply of A and a successful apply of a different
\* B from the initial session, one undo leaves the port store equal to the
\* store as it was immediately after A (the store B started from).
UndoAfterBRestoresA ==
    Len(script) = 3 => port_configs = script[2].store

\* C2: after apply A, apply B and two undos the port store is the empty
\* initial store.
SecondUndoRestoresEmpty ==
    Len(script) = 4 => port_configs = EmptyDict

\* C3: after apply A, apply B, undo, undo, two redos leave the port store
\* equal to the store as it was immediately after B (the store the first
\* undo started from).
TwoRedosRestoreB ==
    Len(script) = 6 => port_configs = script[3].store

----------------------------------------------------------------------------
(* The history in any session (SpecTraced) *)

\* C4: in every reachable state, one successful mutating operation followed
\* at once by undo returns the port store to its content before that
\* operation.
UndoRestoresPreMutationStore ==
    (Len(script) = 2 /\ script[1].op = "mutate" /\ script[2].op = "undo")
        => port_configs = script[1].store

\* C5: immediately after any successful mutating operation the cursor is
\* len(snapshots) - 1, whatever undos came before, and a redo with the
\* cursor there changes neither the store, the snapshots nor the cursor.
MutationDiscardsRedo ==
    [][/\ Mutation(HistoryEntryInputs, HistoryTemplateInputs)
            => current_step' = Len(config_history') - 1
       /\ (redo_config /\ current_step = Len(config_history) - 1)
            => UNCHANGED <<port_configs, config_history, current_step>>]_vars

\* a mutation that found redoable snapshots after an undo, then a redo
RedoAfterMutationAfterUndo ==
    /\ Len(script) = 3
    /\ script[1].op = "undo"
    /\ script[2].op = "mutate"
    /\ script[2].step < Len(script[2].history) - 1
    /\ script[3].op = "redo"
    /\ current_step = Len(config_history) - 1

\* C6: undo with the cursor below 0 (initial state, or history fully undone)
\* changes neither the port store, the snapshot list nor the cursor.
UndoBelowZeroIsNoOp ==
    [][(undo_config /\ current_step < 0)
          => UNCHANGED <<port_configs, config_history, current_step>>]_vars

\* an undo that took the cursor from 0 to -1, then one more undo
UndoAfterHistoryFullyUndone ==
    /\ Len(script) = 2
    /\ script[1].op = "undo" /\ script[1].step = 0
    /\ script[2].op = "undo" /\ script[2].step = -1
    /\ script[2].history # << >>
    /\ script[2].store # EmptyDict
    /\ port_configs = script[2].store
    /\ current_step = -1

\* C7: each successful apply, direct field update and template apply cuts
\* the snapshot list to cursor+1 entries, appends one copy of the port store
\* as it was before the operation, and moves the cursor up by exactly one.
MutationRecordsOneSnapshot ==
    [][Mutation(HistoryEntryInputs, HistoryTemplateInputs)
          => /\ config_history' =
                   Append(SubSeq(config_history, 1, current_step + 1), port_configs)
             /\ current_step' = current_step + 1]_vars

\* a mutation of a non-empty store that cut a redoable snapshot off
SnapshotRecordedAfterCut ==
    /\ Len(script) = 2
    /\ script[1].op = "undo"
    /\ script[2].op = "mutate"
    /\ script[2].step + 1 < Len(script[2].history)
    /\ script[2].store # EmptyDict
    /\ config_history =
          Append(SubSeq(script[2].history, 1, script[2].step + 1), script[2].store)
    /\ current_step = script[2].step + 1

----------------------------------------------------------------------------
(* The port records (SpecConfigure) *)

AccessOnlyFields == {"data_vlan", "voice_vlan"}
TrunkOnlyFields == {"native_vlan", "allowed_vlans"}

\* C9: in every reachable state no port record holds both an access-only
\* field and a trunk-only field; a trunk record holds no data/voice VLAN and
\* an access record holds no native/allowed VLANs.
ModeFieldsExclusive ==
    \A p \in DOMAIN port_configs :
        LET fields == DOMAIN port_configs[p] IN
        /\ fields \cap AccessOnlyFields = {} \/ fields \cap TrunkOnlyFields = {}
        /\ RecordMode(port_configs[p]) = "trunk" => fields \cap AccessOnlyFields = {}
        /\ RecordMode(port_configs[p]) = "access" => fields \cap TrunkOnlyFields = {}

\* one port went from an access record with a data VLAN to a trunk record,
\* another from a trunk record with allowed VLANs to an access record
RecordsSwitchedMode ==
    \E p, q \in DOMAIN port_configs, i, j \in 1..Len(config_history) :
        /\ Has(config_history[i], p)
        /\ RecordMode(config_history[i][p]) = "access"
        /\ Has(config_history[i][p], "data_vlan")
        /\ RecordMode(port_configs[p]) = "trunk"
        /\ Has(config_history[j], q)
        /\ RecordMode(config_history[j][q]) = "trunk"
        /\ Has(config_history[j][q], "allowed_vlans")
        /\ RecordMode(port_configs[q]) = "access"

\* what a direct update of field may do to the store
DirectUpdateFrame(field) ==
    \A q \in Ports :
        IF /\ q \in selected_ports
           /\ Has(port_configs, q)
           /\ Has(port_configs[q], "mode")
           /\ port_configs[q]["mode"] = "trunk"
        THEN /\ q \in TrunkPortsOf(port_configs, selected_ports)
             /\ Has(port_configs', q)
             /\ Has(port_configs'[q], field)
             /\ \A f \in (DOMAIN port_configs[q] \cup DOMAIN port_configs'[q]) \ {field} :
                   /\ Has(port_configs[q], f)
                   /\ Has(port_configs'[q], f)
                   /\ port_configs'[q][f] = port_configs[q][f]
        ELSE /\ q \notin TrunkPortsOf(port_configs, selected_ports)
             /\ Has(port_configs', q) <=> Has(port_configs, q)
             /\ Has(port_configs, q) => port_configs'[q] = port_configs[q]

\* C10: a direct update of the native VLAN or of the allowed VLANs changes
\* that field only on selected ports that hold a record whose mode is trunk;
\* every other port keeps its record, or its absence, and is not in the
\* updated set.
DirectUpdateOnlyTrunk ==
    [][\A e \in HistoryEntryInputs :
          /\ NativeOk(e.native_vlan) => DirectUpdateFrame("native_vlan")
          /\ AllowedOk(e.allowed_vlans) => DirectUpdateFrame("allowed_vlans")]_vars

\* a direct update set the native VLAN of a selected trunk port to "1" and
\* left the selected access port as it was
DirectUpdateSkippedAccessPort ==
    /\ current_step >= 0
    /\ current_step = Len(config_history) - 1
    /\ \E p, q \in selected_ports :
          LET before == config_history[current_step + 1] IN
          /\ Has(before, p) /\ Has(port_configs, p)
          /\ RecordMode(before[p]) = "trunk"
          /\ ~Has(before[p], "native_vlan")
          /\ Has(port_configs[p], "native_vlan")
          /\ port_configs[p]["native_vlan"] = <<"1">>
          /\ Has(before, q) /\ Has(port_configs, q)
          /\ RecordMode(before[q]) = "access"
          /\ port_configs[q] = before[q]

----------------------------------------------------------------------------
(* Sessions that explore the selection: a nine-port layout, clicks, layout
   updates and Clear All; script keeps the last call of a session with the
   selection and the anchor as they were before it *)

InitSelection == InitWith(SelectionPorts)

\* the port counts the operator sets the layout to
SelectionLayouts == {0, 4, SelectionPorts}

TraceSelection(op, port, ctrl_pressed, shift_pressed) ==
    script' = <<[op |-> op, port |-> port,
                 ctrl |-> ctrl_pressed, shift |-> shift_pressed,
                 selection |-> selected_ports, anchor |-> last_clicked_port,
                 total |-> total_ports]>>

NextSelection ==
    \/ \E p \in 1..SelectionPorts, ctrl_pressed \in BOOLEAN, shift_pressed \in BOOLEAN :
          /\ script = << >>
          /\ on_port_click(p, ctrl_pressed, shift_pressed)
          /\ UNCHANGED script
    \/ \E n \in SelectionLayouts :
          /\ script = << >>
          /\ DrawSwitch(n)
          /\ UNCHANGED script
    \/ \E confirmed \in BOOLEAN :
          /\ script = << >>
          /\ clear_all(confirmed)
          /\ UNCHANGED script
    \/ \E p \in 1..SelectionPorts, ctrl_pressed \in BOOLEAN, shift_pressed \in BOOLEAN :
          /\ script = << >>
          /\ on_port_click(p, ctrl_pressed, shift_pressed)
          /\ TraceSelection("click", p, ctrl_pressed, shift_pressed)
    \/ \E n \in SelectionLayouts :
          /\ script = << >>
          /\ DrawSwitch(n)
          /\ TraceSelection("layout", n, FALSE, FALSE)

SpecSelection == InitSelection /\ [][NextSelection]_vars

----------------------------------------------------------------------------
(* The ports outside the selection (SpecConfigure) *)

\* a call of one of the handlers that write records, however it ends
WritingHandler(entry_inputs, template_inputs) ==
    \/ \E e \in entry_inputs : update_vlan_from_port_config(e)
    \/ \E e \in entry_inputs : direct_update_native_vlan(e.native_vlan)
    \/ \E e \in entry_inputs : direct_update_allowed_vlans(e.allowed_vlans)
    \/ \E name \in template_inputs, create_data \in BOOLEAN, create_voice \in BOOLEAN :
          apply_template(name, create_data, create_voice)

\* C11: apply, direct field update and template apply leave the record, or
\* the absence of a record, of every port outside the selection as it was.
UnselectedPortsUnchanged ==
    [][WritingHandler(HistoryEntryInputs, HistoryTemplateInputs)
          => \A q \in Ports \ selected_ports :
                /\ Has(port_configs', q) <=> Has(port_configs, q)
                /\ Has(port_configs, q) => port_configs'[q] = port_configs[q]]_vars

\* the last operation rewrote the selected port and the configured port
\* outside the selection still holds the record it held before
SelectedRewrittenOtherKept ==
    /\ current_step >= 0
    /\ current_step = Len(config_history) - 1
    /\ \E p \in selected_ports, q \in Ports \ selected_ports :
          LET before == config_history[current_step + 1] IN
          /\ Has(before, p) /\ Has(port_configs, p)
          /\ before[p] # port_configs[p]
          /\ Has(before, q) /\ Has(port_configs, q)
          /\ port_configs[q] = before[q]

----------------------------------------------------------------------------
(* The selection and the anchor (SpecSelection) *)

\* C12: a plain click on port p makes the selection exactly {p} and the
\* anchor p, whatever was selected; when the selection is already exactly
\* {p} it changes neither the selection nor the anchor.
PlainClickSelectsOnly ==
    [][\A p \in 1..SelectionPorts :
          on_port_click(p, FALSE, FALSE)
             => IF selected_ports = {p}
                THEN UNCHANGED <<selected_ports, last_clicked_port>>
                ELSE selected_ports' = {p} /\ last_clicked_port' = p]_vars

\* a plain click on an unselected port replaced a selection of several
\* ports anchored elsewhere
PlainClickReplacedSelection ==
    /\ Len(script) = 1
    /\ script[1].op = "click" /\ ~script[1].ctrl /\ ~script[1].shift
    /\ Cardinality(script[1].selection) >= 2
    /\ script[1].port \notin script[1].selection
    /\ script[1].anchor \notin {NoPort, script[1].port}
    /\ selected_ports = {script[1].port}
    /\ last_clicked_port = script[1].port

\* C13: a ctrl-click on port p flips the membership of p in the selection,
\* keeps the membership of every other port, and makes p the anchor.
CtrlClickToggles ==
    [][\A p \in 1..SelectionPorts, shift_pressed \in BOOLEAN :
          on_port_click(p, TRUE, shift_pressed)
             => /\ (p \in selected_ports') <=> (p \notin selected_ports)
                /\ \A q \in (1..SelectionPorts) \ {p} :
                      (q \in selected_ports') <=> (q \in selected_ports)
                /\ last_clicked_port' = p]_vars

\* click(5) then ctrl-click(5): the selection is empty, the anchor is 5
CtrlClickEmptiedSelection ==
    /\ Len(script) = 1
    /\ script[1].op = "click" /\ script[1].ctrl /\ script[1].port = 5
    /\ script[1].selection = {5}
    /\ script[1].anchor = 5
    /\ selected_ports = {}
    /\ last_clicked_port = 5

\* C14: a shift-click on port p with an anchor a adds the inclusive range
\* between a and p to the selection and leaves the anchor equal to a.
ShiftClickExtends ==
    [][\A p \in 1..SelectionPorts :
          (on_port_click(p, FALSE, TRUE) /\ last_clicked_port # NoPort)
             => /\ selected_ports' = selected_ports \cup
                      {q \in 1..SelectionPorts :
                          \/ last_clicked_port <= q /\ q <= p
                          \/ p <= q /\ q <= last_clicked_port}
                /\ last_clicked_port' = last_clicked_port]_vars

\* click(5), shift-click(9), then shift-click(3): the selection is 3..9 and
\* the anchor is still 5
ShiftClickChainGrew ==
    /\ Len(script) = 1
    /\ script[1].op = "click" /\ ~script[1].ctrl /\ script[1].shift
    /\ script[1].port = 3
    /\ script[1].selection = 5..9
    /\ script[1].anchor = 5
    /\ selected_ports = 3..9
    /\ last_clicked_port = 5

\* C15: a layout update to n ports removes every selected port above n,
\* keeps every selected port up to n and leaves no anchor above n; in every
\* reachable state the selection and the anchor lie within the layout.
LayoutPrunesSelection ==
    /\ [](/\ selected_ports \subseteq 1..total_ports
          /\ last_clicked_port # NoPort => last_clicked_port \in 1..total_ports)
    /\ [][\A n \in SelectionLayouts :
             DrawSwitch(n)
                => /\ n >= 1 => total_ports' = n
                   /\ selected_ports' = {q \in selected_ports : q <= total_ports'}
                   /\ last_clicked_port > total_ports' => last_clicked_port' = NoPort]_vars

\* the layout went from 9 to 4 ports with ports selected on both sides of
\* 4 and the anchor above 4
LayoutShrankUnderSelection ==
    /\ Len(script) = 1
    /\ script[1].op = "layout" /\ script[1].port = 4 /\ script[1].total = 9
    /\ script[1].anchor > 4
    /\ \E q \in script[1].selection : q > 4
    /\ \E q \in script[1].selection : q <= 4
    /\ selected_ports = {q \in script[1].selection : q <= 4}
    /\ last_clicked_port = NoPort
    /\ total_ports = 4

----------------------------------------------------------------------------
(* The interface-range compressor: _generate_interface_ranges *)

\* a sort that puts the largest port first
SortedDescending(S) ==
    LET n == Cardinality(S)
    IN  [i \in 1..n |-> CHOOSE x \in S : Cardinality({y \in S : y > x}) = i - 1]

\* sorted(list(port_set))
Sorted(S) ==
    LET n == Cardinality(S)
    IN  [i \in 1..n |-> CHOOSE x \in S : Cardinality({y \in S : y < x}) = i - 1]

\* a specifier that never names the end of its run
SpecifierStartOnly(prefix, start_range, end_range) ==
    prefix \o IntToText(start_range)

\* f"{prefix}{start_range}" or f"{prefix}{start_range}-{end_range}"
Specifier(prefix, start_range, end_range) ==
    IF start_range = end_range
    THEN prefix \o IntToText(start_range)
    ELSE prefix \o IntToText(start_range) \o <<"-">> \o IntToText(end_range)

RECURSIVE RangesLoop(_, _, _, _, _, _)
\* the for loop over ports[1:], then the append after it
RangesLoop(ports, i, start_range, end_range, ranges, prefix) ==
    IF i > Len(ports)
    THEN Append(ranges, Specifier(prefix, start_range, end_range))
    ELSE IF ports[i] = end_range + 1
    THEN RangesLoop(ports, i + 1, start_range, ports[i], ranges, prefix)
    ELSE RangesLoop(ports, i + 1, ports[i], ports[i],
                    Append(ranges, Specifier(prefix, start_range, end_range)), prefix)

\* _generate_interface_ranges with interface_prefix_var holding prefix
generate_interface_ranges(port_set, prefix) ==
    IF port_set = {} THEN << >>
    ELSE LET ports == Sorted(port_set)
         IN  RangesLoop(ports, 2, ports[1], ports[1], << >>, prefix)

\* INTERFACE_TYPES[DEFAULT_INTERFACE_TYPE]["prefix"], the value of
\* interface_prefix_var until the operator touches the interface settings
TextGigabitEthernet ==
    <<"G", "i", "g", "a", "b", "i", "t", "E", "t", "h", "e", "r", "n", "e", "t">>

\* the prefixes _update_interface_prefix sets for GigabitEthernet, default
\* slot and subslot, and for slot 1
PrefixInputs ==
    { TextGigabitEthernet,
      TextGigabitEthernet \o <<"0", "/", "0", "/">>,
      TextGigabitEthernet \o <<"1", "/", "0", "/">> }

\* the operator has some ports selected
InitRanges ==
    /\ port_configs = EmptyDict
    /\ selected_ports \in SUBSET (1..RangePorts)
    /\ last_clicked_port = NoPort
    /\ config_history = << >>
    /\ current_step = -1
    /\ configured_vlans = {}
    /\ total_ports = RangePorts
    /\ port_mode_var = "Access"
    /\ port_configs_file = NoFile
    /\ script = << >>

\* the compressor is called on the selection; script keeps the call
GenerateRanges ==
    \E prefix \in PrefixInputs :
        /\ script = << >>
        /\ script' = <<[port_set |-> selected_ports, prefix |-> prefix,
                        ranges |-> generate_interface_ranges(selected_ports, prefix)]>>
        /\ UNCHANGED state

SpecRanges == InitRanges /\ [][GenerateRanges]_vars

\* the ports a specifier names: a singleton its port, start-end every
\* integer from start to end
Expand(specifier, prefix) ==
    LET body == SubSeq(specifier, Len(prefix) + 1, Len(specifier))
        pieces == Split(body, "-")
    IN  IF Len(pieces) = 1 THEN {PyInt(pieces[1]).val}
        ELSE PyInt(pieces[1]).val..PyInt(pieces[2]).val

\* C16: expanding the specifiers the compressor returns yields exactly the
\* original set, no port in two specifiers; the empty set yields none.
ExpandRestoresPorts ==
    script # << >> =>
        LET r == script[1] IN
        /\ r.port_set = {} => r.ranges = << >>
        /\ \A i \in 1..Len(r.ranges) :
              /\ SubSeq(r.ranges[i], 1, Len(r.prefix)) = r.prefix
              /\ \A j \in 1..Len(r.ranges) :
                    i # j => Expand(r.ranges[i], r.prefix)
                                \cap Expand(r.ranges[j], r.prefix) = {}
        /\ UNION {Expand(r.ranges[i], r.prefix) : i \in 1..Len(r.ranges)} = r.port_set

\* a set with a one-digit singleton and a run that crosses into two digits
CompressedAcrossDigits ==
    /\ script # << >>
    /\ script[1].port_set = {2} \cup 9..11
    /\ Len(script[1].ranges) = 2

\* the start of every maximal run of consecutive ports, in ascending order
RunStarts(S) ==
    LET starts == {x \in S : x - 1 \notin S}
    IN  [i \in 1..Cardinality(starts) |->
            CHOOSE x \in starts : Cardinality({y \in starts : y < x}) = i - 1]

\* the last port of the run that starts at x
RunEnd(S, x) == CHOOSE e \in S : e >= x /\ x..e \subseteq S /\ e + 1 \notin S

\* the reference: one specifier per maximal run, ascending
ReferenceRanges(S, prefix) ==
    [i \in 1..Len(RunStarts(S)) |->
        LET x == RunStarts(S)[i]
            e == RunEnd(S, x)
        IN  IF e = x THEN prefix \o IntToText(x)
            ELSE prefix \o IntToText(x) \o <<"-">> \o IntToText(e)]

TextGi == <<"G", "i", "0", "/", "0", "/">>

\* C17: the compressor output equals the reference for every set; with the
\* prefix Gi0/0/ the set {1,2,3,5,7,8} gives Gi0/0/1-3, Gi0/0/5, Gi0/0/7-8
\* and {1,2,4,5} gives two ranges.
RangesEqualReference ==
    /\ script # << >> =>
          script[1].ranges = ReferenceRanges(script[1].port_set, script[1].prefix)
    /\ generate_interface_ranges({1, 2, 3, 5, 7, 8}, TextGi) =
          << TextGi \o <<"1", "-", "3">>, TextGi \o <<"5">>, TextGi \o <<"7", "-", "8">> >>
    /\ generate_interface_ranges({1, 2, 4, 5}, TextGi) =
          << TextGi \o <<"1", "-", "2">>, TextGi \o <<"4", "-", "5">> >>

\* the compressor ran on {1,2,3,5,7,8}
CompressedExampleSet ==
    /\ script # << >>
    /\ script[1].port_set = {1, 2, 3, 5, 7, 8}
    /\ Len(script[1].ranges) = 3
    /\ script[1].ranges[2] = script[1].prefix \o <<"5">>

----------------------------------------------------------------------------
(* Grouping in command generation: _generate_port_config_commands *)

\* the field names a record can hold, in the order sorted() puts them
FieldOrder ==
    <<"allowed_vlans", "data_vlan", "description", "mode", "native_vlan",
      "portfast", "qos_trust", "voice_vlan">>

\* str(v) for the value of field k: a bool becomes "True" or "False", a
\* string is itself
StrValue(k, v) ==
    IF k \in {"portfast", "qos_trust"}
    THEN IF v THEN <<"T", "r", "u", "e">> ELSE <<"F", "a", "l", "s", "e">>
    ELSE IF k = "mode"
    THEN CASE v = "access" -> <<"a", "c", "c", "e", "s", "s">>
           [] v = "trunk" -> <<"t", "r", "u", "n", "k">>
           [] OTHER -> << >>
    ELSE v

\* a key made of the mode alone
config_keyModeOnly(config) ==
    IF Has(config, "mode") THEN << <<"mode", StrValue("mode", config["mode"])>> >>
    ELSE << >>

\* tuple(sorted((k, str(v)) for k, v in config.items()))
config_key(config) ==
    LET present == SelectSeq(FieldOrder, LAMBDA k : Has(config, k))
    IN  [i \in 1..Len(present) |->
            <<present[i], StrValue(present[i], config[present[i]])>>]

\* a grouping that puts every configured port into one group
port_groupsSingle(store, ports_to_configure) ==
    LET configured_ports == {q \in ports_to_configure : Has(store, q)}
    IN  [key \in {config_key(store[q]) :
                     q \in {r \in configured_ports :
                               \A x \in configured_ports : r <= x}} |->
            Sorted(configured_ports)]

\* port_groups after the loop over the configured ports, in ascending order
port_groups(store, ports_to_configure) ==
    LET configured_ports == {q \in ports_to_configure : Has(store, q)}
        keys == {config_key(store[q]) : q \in configured_ports}
    IN  [key \in keys |->
            Sorted({q \in configured_ports : config_key(store[q]) = key})]

\* ports p and q are in the list of one group
SameGroup(store, p, q) ==
    LET groups == port_groups(store, DOMAIN store)
    IN  \E key \in DOMAIN groups :
           /\ \E i \in 1..Len(groups[key]) : groups[key][i] = p
           /\ \E j \in 1..Len(groups[key]) : groups[key][j] = q

\* C18: two configured ports are in the same group if and only if their
\* records are equal in every field, a field present in one and absent in
\* the other included.
GroupedIffEqualRecords ==
    \A p, q \in DOMAIN port_configs :
        SameGroup(port_configs, p, q) <=> port_configs[p] = port_configs[q]

\* two ports configured by different operations hold equal records and
\* share a group
EqualRecordsFromSeparateOperations ==
    \E p, q \in DOMAIN port_configs, i \in 1..Len(config_history) :
        /\ p # q
        /\ Has(config_history[i], p)
        /\ ~Has(config_history[i], q)
        /\ config_history[i][p] = port_configs[p]
        /\ port_configs[p] = port_configs[q]
        /\ SameGroup(port_configs, p, q)

----------------------------------------------------------------------------
(* Sessions that commit allowed-VLAN strings: the one-port layout, Apply
   Configuration and the direct update of the allowed VLANs *)

\* what the operator types into the allowed VLANs entry, which has no
\* keystroke validation
AllowedTexts ==
    { <<"A", "L", "L">>,
      <<"1", "0">>,
      <<"1", ",", "1", "0", "-", "2", "0", ",", "3", "0">>,
      <<"1", "0", "-", "5">>,
      <<"4", "0", "9", "5">>,
      <<"a", "b", "c">>,
      <<"1", "0", "-">> }

AllowedEntryInputs ==
    {Entries(<< >>, TRUE, FALSE, << >>, << >>, << >>, t) : t \in AllowedTexts}

NextAllowed ==
    \/ \E p \in 1..HistoryPorts, ctrl_pressed \in BOOLEAN, shift_pressed \in BOOLEAN :
          Run(on_port_click(p, ctrl_pressed, shift_pressed), HistoryDepth)
    \/ \E m \in {"Access", "Trunk"} : Run(SelectMode(m), HistoryDepth)
    \/ \E e \in AllowedEntryInputs :
          Run(update_vlan_from_port_config(e), HistoryDepth)
    \/ \E e \in AllowedEntryInputs :
          Run(direct_update_allowed_vlans(e.allowed_vlans), HistoryDepth)

SpecAllowed == InitHistory /\ [][NextAllowed]_vars

\* one token of the grammar: an integer in 1..4094, or start-end with
\* 1 <= start <= end <= 4094
GrammarToken(token) ==
    LET pieces == Split(token, "-") IN
    IF Len(pieces) = 1
    THEN IsDigit(token) /\ InVlanRange(DigitsValue(token))
    ELSE /\ Len(pieces) = 2
         /\ IsDigit(Strip(pieces[1])) /\ IsDigit(Strip(pieces[2]))
         /\ InVlanRange(DigitsValue(Strip(pieces[1])))
         /\ InVlanRange(DigitsValue(Strip(pieces[2])))
         /\ DigitsValue(Strip(pieces[1])) <= DigitsValue(Strip(pieces[2]))

\* the grammar of a committed allowed-VLAN string
InGrammar(text) ==
    \/ Upper(text) = TextALL
    \/ LET parts == Split(text, ",")
       IN  \A i \in 1..Len(parts) :
              Strip(parts[i]) = << >> \/ GrammarToken(Strip(parts[i]))

\* C19: a string outside the grammar ("10-5", "4095", "abc", "10-") is never
\* stored as a port's allowed VLANs by apply or by the direct allowed-VLAN
\* update: every stored allowed-VLAN string is one the grammar accepts.
StoredAllowedVlansInGrammar ==
    \A p \in DOMAIN port_configs :
        Has(port_configs[p], "allowed_vlans")
            => InGrammar(port_configs[p]["allowed_vlans"])

----------------------------------------------------------------------------
(* The live check of the template editor's allowed VLANs entry: the entry
   calls _validate_vlan_range on every keystroke with the text the key
   would leave *)

TypedChars == {"1", "2", "0", ",", "-"}

\* every text of up to MaxTyped characters, and the two named strings
TypedTexts ==
    UNION {[1..n -> TypedChars] : n \in 0..MaxTyped}
        \cup { <<"1", ",", "1", "0", "-", "2", "0", ",", "3", "0">>,
               <<"A", "L", "L">> }

\* the operator is on the way to typing a valid string and has typed its
\* first n characters; script keeps the verdict of the check
LiveCheck ==
    \E valid \in {t \in TypedTexts : t # << >> /\ InGrammar(t)} :
        \E n \in 0..Len(valid) :
            /\ script = << >>
            /\ script' = <<[valid |-> valid, text |-> SubSeq(valid, 1, n),
                            accepted |-> validate_vlan_range(SubSeq(valid, 1, n))]>>
            /\ UNCHANGED state

SpecLiveCheck == InitHistory /\ [][LiveCheck]_vars

\* C20: the live check accepts the empty string and every prefix of every
\* valid VLAN-range string, every prefix of "1,10-20,30" included.
LiveCheckAcceptsPrefixes ==
    script # << >> => script[1].accepted

----------------------------------------------------------------------------
(* Template apply (SpecTemplate): any session on the full layout, then one
   traced template apply; script keeps the template's name, the store and
   the registry as they were before it, and the questions it asked *)

TemplateDepth == 2

\* lines 2248-2262: the VLANs for which the handler asks "Would you like to
\* create it?"; only an access template leads to a question
TemplatePrompts(vlans, template, create_data) ==
    IF template["mode"] # "access" THEN {}
    ELSE LET asked_data == ~check_vlan_exists(vlans, template["access_vlan"])
             v1 == IF asked_data /\ create_data
                   THEN create_vlan(vlans, template["access_vlan"]) ELSE vlans
         IN  (IF asked_data THEN {PyInt(template["access_vlan"]).val} ELSE {})
             \cup (IF Has(template, "voice_vlan")
                      /\ ~check_vlan_exists(v1, template["voice_vlan"])
                   THEN {PyInt(template["voice_vlan"]).val} ELSE {})

\* the questions of lines 2251 and 2259 that were answered yes
TemplateAccepted(vlans, template, create_data, create_voice) ==
    IF template["mode"] # "access" THEN {}
    ELSE LET asked_data == ~check_vlan_exists(vlans, template["access_vlan"])
             v1 == IF asked_data /\ create_data
                   THEN create_vlan(vlans, template["access_vlan"]) ELSE vlans
         IN  (IF asked_data /\ create_data
              THEN {PyInt(template["access_vlan"]).val} ELSE {})
             \cup (IF Has(template, "voice_vlan") /\ create_voice
                      /\ ~check_vlan_exists(v1, template["voice_vlan"])
                   THEN {PyInt(template["voice_vlan"]).val} ELSE {})

TraceTemplate ==
    \E name \in DOMAIN port_templates, create_data \in BOOLEAN, create_voice \in BOOLEAN :
        /\ script = << >>
        /\ TemplateOk(name, create_data, create_voice)
        /\ Len(config_history') <= TemplateDepth
        /\ script' = <<[op |-> "template", name |-> name,
                        store |-> port_configs,
                        registry |-> configured_vlans,
                        surfaced |-> TemplatePrompts(configured_vlans,
                                        port_templates[name], create_data),
                        accepted |-> TemplateAccepted(configured_vlans,
                                        port_templates[name], create_data,
                                        create_voice)]>>

NextTemplate ==
    \/ /\ script = << >>
       /\ \/ \E p \in Ports, ctrl_pressed \in BOOLEAN, shift_pressed \in BOOLEAN :
                Run(on_port_click(p, ctrl_pressed, shift_pressed), TemplateDepth)
          \/ \E m \in {"Access", "Trunk"} : Run(SelectMode(m), TemplateDepth)
          \/ \E e \in HistoryEntryInputs :
                Run(update_vlan_from_port_config(e), TemplateDepth)
          \/ \E name \in DOMAIN port_templates, create_data \in BOOLEAN,
                create_voice \in BOOLEAN :
                Run(apply_template(name, create_data, create_voice), TemplateDepth)
    \/ TraceTemplate

SpecTemplate == Init /\ [][NextTemplate]_vars

\* the fields a template of the given mode resolves to
TemplateFields(template) ==
    {"mode", "description", "portfast", "qos_trust"}
        \cup (IF template["mode"] = "access"
              THEN {"data_vlan"} \cup (IF Has(template, "voice_vlan")
                                       THEN {"voice_vlan"} ELSE {})
              ELSE {"native_vlan", "allowed_vlans"})

\* the template's own name for a field of the record
TemplateField(k) ==
    CASE k = "data_vlan" -> "access_vlan"
      [] k = "allowed_vlans" -> "trunk_vlans"
      [] OTHER -> k

\* C21: a successful template apply to a non-empty selection replaces the
\* record of every selected port by the template's resolved configuration:
\* exactly the fields mode, description, portfast, qos_trust and the VLAN
\* fields of the template's mode, each with the template's value, so all
\* selected ports end with equal records and nothing of what they held
\* before.
TemplateReplacesRecords ==
    script # << >> =>
        LET template == port_templates[script[1].name] IN
        /\ selected_ports # {}
        /\ \A q \in selected_ports :
              /\ Has(port_configs, q)
              /\ DOMAIN port_configs[q] = TemplateFields(template)
              /\ \A k \in TemplateFields(template) :
                    port_configs[q][k] = template[TemplateField(k)]
        /\ \A q \in selected_ports, r \in selected_ports :
              port_configs[q] = port_configs[r]

\* a template was applied to two ports, one of which held a record of the
\* other mode with fields the template does not have
TemplateOverwroteOtherMode ==
    /\ script # << >>
    /\ Cardinality(selected_ports) = 2
    /\ \E q \in selected_ports :
          /\ Has(script[1].store, q)
          /\ RecordMode(script[1].store[q]) # port_templates[script[1].name]["mode"]
          /\ \E k \in DOMAIN script[1].store[q] :
                k \notin TemplateFields(port_templates[script[1].name])

----------------------------------------------------------------------------
(* The VLANs a template refers to *)

\* the VLAN IDs a template names: the data and the voice VLAN of an access
\* template; the native VLAN and every ID of a concrete allowed list of a
\* trunk template
TemplateReferenced(template) ==
    IF template["mode"] = "access"
    THEN {PyInt(template["access_vlan"]).val}
            \cup (IF Has(template, "voice_vlan")
                  THEN {PyInt(template["voice_vlan"]).val} ELSE {})
    ELSE {PyInt(template["native_vlan"]).val}
            \cup (IF Upper(template["trunk_vlans"]) = TextALL THEN {}
                  ELSE {PyInt(t).val :
                          t \in TrunkVlanTexts(Split(template["trunk_vlans"], ",")).texts})

\* C22: a template apply surfaces to the caller every VLAN ID the template
\* refers to that is not yet in the VLAN registry, and a surfaced VLAN is
\* added to the registry only if the caller accepts.
TemplateSurfacesMissingVlans ==
    script # << >> =>
        /\ TemplateReferenced(port_templates[script[1].name]) \ script[1].registry
              \subseteq script[1].surfaced
        /\ configured_vlans \ script[1].registry \subseteq script[1].accepted
        /\ script[1].accepted \subseteq script[1].surfaced

----------------------------------------------------------------------------
(* Handlers pressed with nothing selected (SpecNoSelection): any session on
   the one-port layout, then one traced press of Apply Configuration, of a
   direct update button or of a template while no port is selected *)

TraceNoSelection ==
    /\ script = << >>
    /\ selected_ports = {}
    /\ \E op \in {"apply", "native", "allowed", "template"} :
          /\ CASE op = "apply" ->
                    \E e \in HistoryEntryInputs : update_vlan_from_port_config(e)
               [] op = "native" ->
                    \E e \in HistoryEntryInputs : direct_update_native_vlan(e.native_vlan)
               [] op = "allowed" ->
                    \E e \in HistoryEntryInputs : direct_update_allowed_vlans(e.allowed_vlans)
               [] op = "template" ->
                    \E name \in HistoryTemplateInputs, create_data \in BOOLEAN,
                       create_voice \in BOOLEAN :
                        apply_template(name, create_data, create_voice)
          /\ script' = <<[op |-> op, store |-> port_configs,
                          history |-> config_history, step |-> current_step,
                          registry |-> configured_vlans]>>

NextNoSelection ==
    \/ script = << >> /\ NextHistory
    \/ TraceNoSelection

SpecNoSelection == InitHistory /\ [][NextNoSelection]_vars

\* C23: apply, direct native-VLAN update, direct allowed-VLAN update and
\* template apply invoked with an empty selection change nothing: the port
\* store, the history snapshots and cursor, and the VLAN registry are as
\* they were.
EmptySelectionChangesNothing ==
    script # << >> =>
        /\ port_configs = script[1].store
        /\ config_history = script[1].history
        /\ current_step = script[1].step
        /\ configured_vlans = script[1].registry

\* a direct native-VLAN update was pressed with nothing selected while the
\* store, the history and the registry all held something
EmptySelectionOnConfiguredSession ==
    /\ script # << >>
    /\ script[1].op = "native"
    /\ script[1].store # EmptyDict
    /\ script[1].history # << >>
    /\ script[1].registry # {}

----------------------------------------------------------------------------
(* The saved port configurations (SpecCommit): any session on the one-port
   layout, then one traced committing action *)

TraceCommit ==
    /\ script = << >>
    /\ \/ Mutation(HistoryEntryInputs, HistoryTemplateInputs)
       \/ clear_all(TRUE)
    /\ Len(config_history') <= HistoryDepth
    /\ script' = <<[op |-> "commit", store |-> port_configs,
                    file |-> port_configs_file]>>

NextCommit ==
    \/ script = << >> /\ NextHistory
    \/ TraceCommit

SpecCommit == InitHistory /\ [][NextCommit]_vars

\* the file holds exactly the ports of the store, each under the decimal text
\* of its number and with the record the store holds for it
FileEqualsStore(file, store) ==
    /\ file.exists
    /\ \A k \in DOMAIN file.data : PyInt(k).ok /\ Has(store, PyInt(k).val)
    /\ \A q \in DOMAIN store :
          /\ Has(file.data, IntToText(q))
          /\ file.data[IntToText(q)] = store[q]

\* C24: after each committing action (a successful apply, direct field
\* update or template apply, a confirmed clear-all) the saved port
\* configurations are a full overwrite equal to the port store in memory:
\* the same ports, the same record for each port.
CommitSavesWholeStore ==
    script # << >> => FileEqualsStore(port_configs_file, port_configs)

\* a committing action has overwritten a file that held a port the store no
\* longer holds, or held another record for a port
CommitOverwroteStaleFile ==
    /\ script # << >>
    /\ script[1].file.exists
    /\ script[1].file # port_configs_file
    /\ ~FileEqualsStore(script[1].file, script[1].store)

----------------------------------------------------------------------------
(* Saving and loading (SpecRoundTrip): the session starts from a port store
   and a VLAN registry drawn from small sets; one step saves both files and
   loads them into a new session. self.global_configs is not among the
   variables: the step keeps it, before the save and after the load, in
   script *)

RoundTripPorts == 10

\* lines 124-138: self.global_configs as __init__ builds it (the hostname,
\* one of the flags and the VLAN names stand for the thirteen fields)
GlobalDefaults == [hostname |-> << >>, vty_ssh |-> TRUE, vlans |-> EmptyDict]

\* _update_global_configs_from_ui: the fields are read from the widgets and
\* the VLAN names are rebuilt from the registry as f"VLAN_{vlan_id}"
update_global_configs_from_ui(global_configs, ui, vlans) ==
    [hostname |-> Strip(ui.hostname),
     vty_ssh |-> ui.vty_ssh,
     vlans |-> [k \in {IntToText(v) : v \in vlans} |-> <<"V", "L", "A", "N", "_">> \o k]]

\* _save_global_configs: json.dump of the dictionary as updated from the UI
save_global_configs(global_configs, ui, vlans) ==
    [exists |-> TRUE, data |-> update_global_configs_from_ui(global_configs, ui, vlans)]

\* _load_global_configs: the loaded object replaces the dictionary and every
\* key of "vlans" that int() accepts joins the registry
load_global_configs(file, global_configs, vlans) ==
    IF ~file.exists THEN [global_configs |-> global_configs, configured_vlans |-> vlans]
    ELSE [global_configs |-> file.data,
          configured_vlans |->
              vlans \cup {PyInt(k).val : k \in {x \in DOMAIN file.data.vlans : PyInt(x).ok}}]

\* add_global_vlan, lines 1800-1813: the checks on the two entries
AddVlanValid(vlans, vlan_id_str, vlan_name) ==
    /\ Strip(vlan_id_str) # << >>
    /\ PyInt(Strip(vlan_id_str)).ok
    /\ InVlanRange(PyInt(Strip(vlan_id_str)).val)
    /\ PyInt(Strip(vlan_id_str)).val \notin vlans
    /\ ~Contains(Strip(vlan_name), " ")

\* add_global_vlan, lines 1820-1826: the name is stored under str(vlan_id)
AddVlanName(global_configs, vlan_id_str, vlan_name) ==
    IF Strip(vlan_name) = << >> THEN global_configs
    ELSE [global_configs EXCEPT !.vlans =
             DictSet(@, IntToText(PyInt(Strip(vlan_id_str)).val), Strip(vlan_name))]

\* the stores the session may start from: template records on some ports
RoundTripStores ==
    UNION {[S -> {TemplateConfig(port_templates["Phone Port"]),
                  TemplateConfig(port_templates["Trunk Port"])}] :
              S \in SUBSET {1, 2, RoundTripPorts}}

RoundTripVlans == {10, 100}

RoundTripUi == {[hostname |-> h, vty_ssh |-> b] :
                   h \in {<< >>, <<"s", "w", "1">>}, b \in BOOLEAN}

InitRoundTrip ==
    /\ port_configs \in RoundTripStores
    /\ selected_ports = {}
    /\ last_clicked_port = NoPort
    /\ config_history = << >>
    /\ current_step = -1
    /\ configured_vlans \in SUBSET RoundTripVlans
    /\ total_ports = RoundTripPorts
    /\ port_mode_var = "Access"
    /\ port_configs_file = NoFile
    /\ script = << >>

\* the two saves, then __init__ of a new session: lines 194-195 load both
\* files into an empty store, the default dictionary and an empty registry
SaveAndReload(global_configs, ui, vlans) ==
    LET file == save_global_configs(global_configs, ui, vlans)
        loaded == load_global_configs(file, GlobalDefaults, {})
    IN  /\ port_configs_file' = save_port_configs(port_configs)
        /\ port_configs' = load_port_configs(port_configs_file', EmptyDict)
        /\ configured_vlans' = loaded.configured_vlans
        /\ script' = <<[before |-> [port_configs |-> port_configs,
                                    global_configs |-> global_configs,
                                    configured_vlans |-> vlans],
                        after |-> [port_configs |-> port_configs',
                                   global_configs |-> loaded.global_configs,
                                   configured_vlans |-> loaded.configured_vlans]]>>
        /\ UNCHANGED <<selected_ports, last_clicked_port, config_history,
                       current_step, total_ports, port_mode_var>>

\* _on_tab_changed (lines 3325-3326) saves both files; the dictionary is as
\* the last save left it
TabChangedThenReload ==
    \E ui \in RoundTripUi :
        /\ script = << >>
        /\ SaveAndReload(update_global_configs_from_ui(GlobalDefaults, ui, configured_vlans),
                         ui, configured_vlans)

\* add_global_vlan registers a VLAN, stores its name and saves; the store
\* is saved on the way out of the tab
AddVlanThenReload ==
    \E ui \in RoundTripUi, vlan_id_str \in {<<"2", "0">>, <<"1", "0">>},
       vlan_name \in {<< >>, <<"S", "E", "R", "V", "E", "R", "S">>} :
        /\ script = << >>
        /\ AddVlanValid(configured_vlans, vlan_id_str, vlan_name)
        /\ SaveAndReload(
              AddVlanName(update_global_configs_from_ui(GlobalDefaults, ui, configured_vlans),
                          vlan_id_str, vlan_name),
              ui, configured_vlans \cup {PyInt(Strip(vlan_id_str)).val})

NextRoundTrip == TabChangedThenReload \/ AddVlanThenReload

SpecRoundTrip == InitRoundTrip /\ [][NextRoundTrip]_vars

\* C25: saving the port store and the global configuration and loading
\* them back yields a state equal field by field to the state before the
\* save: the same port numbers with the same records, the same global
\* fields, the same VLAN id to name mapping.
SaveLoadRoundTrip ==
    script # << >> => script[1].after = script[1].before

----------------------------------------------------------------------------
(* Invariants of the port store *)

\* C26: in every reachable state every record of the port store has mode
\* access or trunk; an apply from the panel after ports of mixed modes were
\* selected never stores a record whose mode is empty.
RecordsHaveMode ==
    \A q \in DOMAIN port_configs :
        /\ Has(port_configs[q], "mode")
        /\ port_configs[q]["mode"] \in {"access", "trunk"}

\* what the operator may have typed into the data and voice VLAN entries
VoiceEntryInputs ==
    { Entries(<< >>, TRUE, FALSE, <<"1", "0">>, <<"1", "0">>, << >>, << >>),
      Entries(<< >>, TRUE, TRUE, <<"1", "0">>, <<"1", "0", "0">>, << >>, << >>) }

NextVoice == Session(VoiceEntryInputs, {"Phone Port"}, 0..HistoryPorts, HistoryDepth)

SpecVoice == InitHistory /\ [][NextVoice]_vars

\* C27: in every reachable state no access record of the port store has a
\* voice VLAN equal to its data VLAN; an apply whose voice VLAN equals its
\* data VLAN stores nothing.
VoiceDiffersFromData ==
    \A q \in DOMAIN port_configs :
        (/\ RecordMode(port_configs[q]) = "access"
         /\ Has(port_configs[q], "data_vlan")
         /\ Has(port_configs[q], "voice_vlan"))
            => PyInt(port_configs[q]["voice_vlan"]).val
                  # PyInt(port_configs[q]["data_vlan"]).val

\* the sessions of SpecAllowed with the trunk templates added
NextTrunk ==
    \/ NextAllowed
    \/ \E name \in {"AP Port", "Trunk Port"}, create_data \in BOOLEAN,
          create_voice \in BOOLEAN :
          Run(apply_template(name, create_data, create_voice), HistoryDepth)

SpecTrunk == InitHistory /\ [][NextTrunk]_vars

\* C28: in every reachable state the allowed VLANs of every trunk record of
\* the port store are ALL (in any case) or a string of the VLAN-range
\* grammar, whether an apply, a direct allowed-VLAN update or a template
\* apply wrote them.
TrunkRecordsAllowedInGrammar ==
    \A q \in DOMAIN port_configs :
        RecordMode(port_configs[q]) = "trunk"
            => /\ Has(port_configs[q], "allowed_vlans")
               /\ InGrammar(port_configs[q]["allowed_vlans"])

\* sessions that configure ports, change the port count and walk the
\* history, on the full layout
NextLayout ==
    \/ \E p \in Ports, ctrl_pressed \in BOOLEAN, shift_pressed \in BOOLEAN :
          Run(on_port_click(p, ctrl_pressed, shift_pressed), HistoryDepth)
    \/ \E n \in LayoutInputs : Run(DrawSwitch(n), HistoryDepth)
    \/ \E e \in HistoryEntryInputs :
          Run(update_vlan_from_port_config(e), HistoryDepth)
    \/ Run(undo_config, HistoryDepth)
    \/ Run(redo_config, HistoryDepth)

SpecLayout == Init /\ [][NextLayout]_vars

\* C29: in every reachable state every key of the port store is a port
\* number in 1..total port count: a shrink removes the records above the
\* new count and no later operation, undo and redo included, brings one
\* back.
StoreKeysWithinLayout ==
    \A q \in DOMAIN port_configs : q \in 1..total_ports

----------------------------------------------------------------------------
(* The VLAN registry (SpecAllowed) *)

\* C30: in every reachable state every member of the VLAN registry is an
\* integer in 1..4094, whatever was entered in the operations that were
\* accepted or rejected.
RegistryWithinVlanRange ==
    \A v \in configured_vlans : InVlanRange(v)

\* the VLAN IDs a record names: its data, voice and native VLAN and every
\* ID of a concrete allowed list
RecordVlans(config) ==
    LET single == {config[k] : k \in {"data_vlan", "voice_vlan", "native_vlan"}
                                      \cap DOMAIN config}
        listed == IF Has(config, "allowed_vlans")
                     /\ Upper(config["allowed_vlans"]) # TextALL
                  THEN TrunkVlanTexts(Split(config["allowed_vlans"], ",")).texts
                  ELSE {}
    IN  {PyInt(t).val : t \in {x \in single \cup listed : PyInt(x).ok}}

\* the ports whose record the traced operation created or changed
WrittenPorts ==
    {q \in DOMAIN port_configs :
        ~Has(script[1].store, q) \/ script[1].store[q] # port_configs[q]}

\* C31: after every successful apply, direct field update or template
\* apply, every VLAN ID named by a record the operation wrote is a member
\* of the VLAN registry.
WrittenVlansRegistered ==
    script # << >> =>
        \A q \in WrittenPorts : RecordVlans(port_configs[q]) \subseteq configured_vlans

\* C32: the VLAN registry never loses a member except through a confirmed
\* clear-all: undo, redo, a port-count shrink and an apply that no longer
\* names a VLAN leave every registered VLAN registered.
RegistryOnlyGrows ==
    [][configured_vlans \subseteq configured_vlans' \/ clear_all(TRUE)]_vars

\* an undo after a shrink: the registry holds a VLAN that no record of the
\* store names any more
RegistryKeptUnreferencedVlan ==
    /\ total_ports < MaxPorts
    /\ current_step < Len(config_history) - 1
    /\ \E v \in configured_vlans :
          \A q \in DOMAIN port_configs : v \notin RecordVlans(port_configs[q])

----------------------------------------------------------------------------
(* Rejected applies (SpecRejected): any session on the one-port layout, then
   one traced Apply Configuration that ends in a warning *)

TraceRejected ==
    \E e \in HistoryEntryInputs \cup AllowedEntryInputs :
        /\ script = << >>
        /\ ApplyOutcome(port_configs, selected_ports, port_mode_var, e) = "invalid"
        /\ update_vlan_from_port_config(e)
        /\ Len(config_history') <= HistoryDepth
        /\ script' = <<[op |-> "rejected", entries |-> e, store |-> port_configs,
                        history |-> config_history, step |-> current_step,
                        registry |-> configured_vlans]>>

NextRejected ==
    \/ script = << >> /\ NextHistory
    \/ TraceRejected

SpecRejected == InitHistory /\ [][NextRejected]_vars

\* C33: an apply that validation rejects pushes no history snapshot: the
\* snapshot list and the cursor are after the rejected call as they were
\* before it.
RejectedApplyKeepsHistory ==
    script # << >> =>
        /\ config_history = script[1].history
        /\ current_step = script[1].step

\* C34: an apply that validation rejects adds nothing to the VLAN registry.
RejectedApplyKeepsRegistry ==
    script # << >> => configured_vlans = script[1].registry

----------------------------------------------------------------------------
(* Command generation per port (SpecCommands): the session starts from a
   port store and a selection drawn from small sets; one step generates the
   commands for the selection *)

CommandPorts == 4

\* lines 2339-2408: one "interface" or "interface range" line per specifier
\* of each group; the pairs of a group's key and a specifier
interface_specifiers(store, ports_to_configure, prefix) ==
    LET groups == port_groups(store, ports_to_configure)
        list(key) == generate_interface_ranges(
                        {groups[key][i] : i \in 1..Len(groups[key])}, prefix)
    IN  UNION {{[key |-> key, specifier |-> list(key)[i]] : i \in 1..Len(list(key))} :
                  key \in DOMAIN groups}

CommandStores ==
    UNION {[S -> {TemplateConfig(port_templates["Access Port"]),
                  TemplateConfig(port_templates["Phone Port"]),
                  TemplateConfig(port_templates["Trunk Port"])}] :
              S \in SUBSET (1..CommandPorts)}

InitCommands ==
    /\ port_configs \in CommandStores
    /\ selected_ports \in SUBSET (1..CommandPorts)
    /\ last_clicked_port = NoPort
    /\ config_history = << >>
    /\ current_step = -1
    /\ configured_vlans = {}
    /\ total_ports = CommandPorts
    /\ port_mode_var = "Access"
    /\ port_configs_file = NoFile
    /\ script = << >>

\* _generate_port_config_commands() on the selection; script keeps the call
GenerateCommands ==
    \E prefix \in {TextGigabitEthernet \o <<"0", "/", "0", "/">>} :
        /\ script = << >>
        /\ script' = <<[ports |-> selected_ports, prefix |-> prefix,
                        emitted |-> interface_specifiers(port_configs,
                                        selected_ports, prefix)]>>
        /\ UNCHANGED state

SpecCommands == InitCommands /\ [][GenerateCommands]_vars

\* C35: for any requested port set the generated commands cover exactly the
\* requested ports that have a record: each is covered by exactly one
\* emitted specifier, the ports one specifier covers have the same record,
\* and no unconfigured or unrequested port is covered.
CommandsCoverRequestedConfigured ==
    script # << >> =>
        LET r == script[1]
            covered(e) == Expand(e.specifier, r.prefix)
        IN  /\ UNION {covered(e) : e \in r.emitted} = r.ports \cap DOMAIN port_configs
            /\ \A q \in r.ports \cap DOMAIN port_configs :
                  Cardinality({e \in r.emitted : q \in covered(e)}) = 1
            /\ \A e \in r.emitted : \A x \in covered(e), y \in covered(e) :
                  port_configs[x] = port_configs[y]

\* commands were generated for ports 1..4 where ports 1 and 3 hold one
\* record, port 2 another and port 4 none
CommandsForInterleavedRecords ==
    /\ script # << >>
    /\ script[1].ports = 1..CommandPorts
    /\ DOMAIN port_configs = 1..3
    /\ port_configs[1] = port_configs[3]
    /\ port_configs[1] # port_configs[2]
    /\ Cardinality(script[1].emitted) = 3

----------------------------------------------------------------------------
(* Declaring a VLAN (SpecAddVlan): the session starts as in SpecRoundTrip;
   one step presses "Add VLAN"; script keeps the two entries and
   self.global_configs as the handler leaves it *)

\* add_global_vlan: the entries are checked, the VLAN joins the registry,
\* its name is stored and _save_global_configs runs
add_global_vlan(vlan_id_str, vlan_name) ==
    \E ui \in RoundTripUi :
        LET before == update_global_configs_from_ui(GlobalDefaults, ui, configured_vlans)
            vlans == configured_vlans \cup {PyInt(Strip(vlan_id_str)).val}
        IN
        /\ script = << >>
        /\ IF AddVlanValid(configured_vlans, vlan_id_str, vlan_name) THEN
              /\ configured_vlans' = vlans
              /\ script' = <<[op |-> "add_vlan",
                              vlan_id |-> PyInt(Strip(vlan_id_str)).val,
                              vlan_name |-> Strip(vlan_name),
                              global_configs |->
                                  save_global_configs(
                                      AddVlanName(before, vlan_id_str, vlan_name),
                                      ui, vlans).data]>>
           ELSE
              /\ UNCHANGED configured_vlans
              /\ script' = <<[op |-> "invalid", vlan_id |-> 0,
                              vlan_name |-> Strip(vlan_name),
                              global_configs |-> before]>>
        /\ UNCHANGED <<port_configs, selected_ports, last_clicked_port,
                       config_history, current_step, total_ports, port_mode_var,
                       port_configs_file>>

NextAddVlan ==
    \E vlan_id_str \in {<<"2", "0">>, <<"1", "0">>, <<"4", "0", "9", "5">>},
       vlan_name \in {<< >>, <<"S", "E", "R", "V", "E", "R", "S">>} :
        add_global_vlan(vlan_id_str, vlan_name)

SpecAddVlan == InitRoundTrip /\ [][NextAddVlan]_vars

\* C36: the display name given when a VLAN is declared is the name recorded
\* for that id in the global configuration's VLAN map once the operation
\* has completed.
DeclaredNameRecorded ==
    (script # << >> /\ script[1].op = "add_vlan" /\ script[1].vlan_name # << >>) =>
        /\ Has(script[1].global_configs.vlans, IntToText(script[1].vlan_id))
        /\ script[1].global_configs.vlans[IntToText(script[1].vlan_id)]
              = script[1].vlan_name

----------------------------------------------------------------------------
(* The history cursor (SpecHistory) *)

\* C37: in every reachable state the history cursor satisfies
\* -1 <= cursor <= len(snapshots) - 1, whatever the interleaving of apply,
\* direct update, template apply, undo and redo: undo never drives the
\* cursor below -1 and redo never drives it past the last snapshot.
CursorWithinHistory ==
    /\ -1 <= current_step
    /\ current_step <= Len(config_history) - 1

\* every snapshot of a full history has been undone
HistoryFullyUndone ==
    /\ Len(config_history) = HistoryDepth
    /\ current_step = -1

----------------------------------------------------------------------------
(* Shift-clicks without an anchor (SpecSelection) *)

\* the traced step was a click with these modifier keys
TracedClick(ctrl_pressed, shift_pressed) ==
    /\ Len(script) = 1
    /\ script[1].op = "click"
    /\ script[1].ctrl = ctrl_pressed
    /\ script[1].shift = shift_pressed

\* the traced click was handled as a ctrl-click
HandledAsCtrlClick ==
    /\ selected_ports = CtrlSelection(script[1].selection, script[1].port)
    /\ last_clicked_port = script[1].port

\* C38 as stated: a shift-click on port p while the anchor is null makes the
\* selection {p} and the anchor p, as a plain click does; a click with both
\* ctrl and shift held is handled as a ctrl-click.
ShiftClickWithoutAnchorSelectsOnly ==
    /\ (TracedClick(FALSE, TRUE) /\ script[1].anchor = NoPort) =>
          /\ selected_ports = {script[1].port}
          /\ last_clicked_port = script[1].port
    /\ TracedClick(TRUE, TRUE) => HandledAsCtrlClick

\* C38: a shift-click on port p while the anchor is null does what a plain
\* click does: the selection becomes {p} and the anchor p, except that when
\* the selection is already exactly {p} neither the selection nor the anchor
\* changes (the anchor stays null); a click with both ctrl and shift held is
\* handled as a ctrl-click.
ShiftClickWithoutAnchorIsPlainClick ==
    /\ (TracedClick(FALSE, TRUE) /\ script[1].anchor = NoPort) =>
          IF script[1].selection = {script[1].port}
          THEN /\ selected_ports = script[1].selection
               /\ last_clicked_port = NoPort
          ELSE /\ selected_ports = {script[1].port}
               /\ last_clicked_port = script[1].port
    /\ TracedClick(TRUE, TRUE) => HandledAsCtrlClick

\* after a layout update left several ports selected and no anchor, a
\* shift-click on another port replaced the selection
ShiftClickWithoutAnchorReplaced ==
    /\ TracedClick(FALSE, TRUE)
    /\ script[1].anchor = NoPort
    /\ Cardinality(script[1].selection) >= 2
    /\ script[1].port \notin script[1].selection
    /\ selected_ports = {script[1].port}
    /\ last_clicked_port = script[1].port

----------------------------------------------------------------------------
(* Removals outside the history (SpecRemoval): a session as in SpecLayout,
   then one traced "Clear All" or "Update Layout", then undos and redos *)

TraceRemoval ==
    /\ script = << >>
    /\ \E op \in {"clear_all", "layout"}, n \in LayoutInputs :
          /\ IF op = "clear_all" THEN n = 0 /\ clear_all(TRUE) ELSE DrawSwitch(n)
          /\ script' = <<[op |-> op, store |-> port_configs,
                          history |-> config_history, step |-> current_step,
                          after |-> port_configs']>>

TraceRestore ==
    /\ Len(script) >= 1
    /\ \/ undo_config /\ script' = <<script[1], [op |-> "undo"]>>
       \/ redo_config /\ script' = <<script[1], [op |-> "redo"]>>

NextRemoval ==
    \/ script = << >> /\ NextLayout
    \/ TraceRemoval
    \/ TraceRestore

SpecRemoval == Init /\ [][NextRemoval]_vars

\* the ports whose record the traced removal removed
RemovedPorts == DOMAIN script[1].store \ DOMAIN script[1].after

\* C39: clear-all and a port-count shrink remove records from the port store
\* and leave the snapshot list and the cursor as they were; the undos and
\* redos that follow still run on the snapshots recorded before.
RemovalKeepsHistory ==
    /\ Len(script) >= 1 => config_history = script[1].history
    /\ Len(script) = 1 =>
          /\ current_step = script[1].step
          /\ port_configs = script[1].after
          /\ script[1].op = "clear_all" => port_configs = EmptyDict
          /\ script[1].op = "layout" =>
                DOMAIN port_configs = {q \in DOMAIN script[1].store : q <= total_ports}

\* an undo or redo after the removal brought back a record it had removed
RemovedRecordRestored ==
    /\ Len(script) = 2
    /\ \E q \in RemovedPorts :
          /\ Has(port_configs, q)
          /\ port_configs[q] = script[1].store[q]

----------------------------------------------------------------------------
(* Undo, redo and the port file (SpecUndoFile): a session as in SpecHistory
   with tab changes, then one traced undo or redo, then one tab change *)

\* _on_tab_changed: both files are saved, then the tab that was opened is
\* refreshed (tab 0 is the port configuration tab)
on_tab_changed(current_tab) ==
    /\ port_configs_file' = save_port_configs(port_configs)
    /\ port_mode_var' =
          IF current_tab = 0
          THEN PanelModeFromSelection(selected_ports, port_configs, port_mode_var)
          ELSE port_mode_var
    /\ UNCHANGED <<port_configs, selected_ports, last_clicked_port,
                   config_history, current_step, configured_vlans, total_ports>>

TraceUndoRedo ==
    /\ script = << >>
    /\ \/ undo_config /\ script' = <<[op |-> "undo", store |-> port_configs,
                                      file |-> port_configs_file,
                                      step |-> current_step]>>
       \/ redo_config /\ script' = <<[op |-> "redo", store |-> port_configs,
                                      file |-> port_configs_file,
                                      step |-> current_step]>>

TraceTabChange ==
    /\ Len(script) = 1
    /\ \E current_tab \in 0..2 : on_tab_changed(current_tab)
    /\ script' = Append(script, [op |-> "tab"])

NextUndoFile ==
    \/ script = << >> /\ NextHistory
    \/ \E current_tab \in 0..2 : script = << >> /\ Run(on_tab_changed(current_tab), HistoryDepth)
    \/ TraceUndoRedo
    \/ TraceTabChange

SpecUndoFile == InitHistory /\ [][NextUndoFile]_vars

\* the traced undo or redo moved the cursor and changed the store
EffectiveUndoRedo ==
    /\ Len(script) = 1
    /\ current_step # script[1].step
    /\ port_configs # script[1].store

====
